---- MODULE Spec2Model ----
(***************************************************************************)
(* A model of the boundary-representation mesh kernel: the EditableMesh    *)
(* store (vertex, edge and face tables keyed by one shared id counter),    *)
(* and the topology operations that edit it.                               *)
(*                                                                         *)
(* A mesh is a record                                                      *)
(*   vertices  : id -> [position]                                          *)
(*   edges     : id -> [vertexIds : <<a, b>>, faceIds : Seq(id)]           *)
(*   faces     : id -> [vertexIds, edgeIds : Seq(id), materialId, uvs]     *)
(*   materials : set of ids                                                *)
(*   nextId    : the id counter                                            *)
(*   issued    : history of the ids generateId has handed out              *)
(* The tables are JavaScript Maps; keys are only ever inserted with a      *)
(* fresh, larger id, so Map iteration order is ascending id order.         *)
(***************************************************************************)
EXTENDS Integers, Sequences, FiniteSets, TLC

VARIABLES mesh, last, calls, twin, modeler

vars == <<mesh, last, calls, twin, modeler>>

(***************************************************************************)
(* Bounds of the model.                                                    *)
(***************************************************************************)
MaxVertexCalls == 3
MaxEdgeCalls == 1
MaxFaceCalls == 1
MaxMaterialCalls == 1
MaxFaceLen == 3
MaxOpCalls == 1
MaxChangeCalls == 1

\* the absent value returned by a failed lookup (undefined)
None == -1

(***************************************************************************)
(* Numbers.  A JavaScript number is modelled as an exact rational <<n, d>>  *)
(* in lowest terms with d > 0.  NaR stands for every float that is not a   *)
(* finite rational the model can hold exactly: the result of a division by *)
(* zero (NaN, Infinity), of a square root that is not rational, and of any *)
(* arithmetic on such a value.                                             *)
(***************************************************************************)
NaR == <<0, 0>>

Abs(n) == IF n < 0 THEN -n ELSE n

RECURSIVE GCD(_, _)
GCD(a, b) == IF b = 0 THEN a ELSE GCD(b, a % b)

Rat(n, d) ==
    IF d = 0 THEN NaR
    ELSE LET g == GCD(Abs(n), Abs(d))
             sg == IF d < 0 THEN -1 ELSE 1
         IN <<(sg * n) \div g, Abs(d) \div g>>

R(n) == <<n, 1>>

IsNaR(a) == a[2] = 0

RAdd(a, b) == IF IsNaR(a) \/ IsNaR(b) THEN NaR
              ELSE Rat(a[1] * b[2] + b[1] * a[2], a[2] * b[2])

RSub(a, b) == IF IsNaR(a) \/ IsNaR(b) THEN NaR
              ELSE Rat(a[1] * b[2] - b[1] * a[2], a[2] * b[2])

RMul(a, b) == IF IsNaR(a) \/ IsNaR(b) THEN NaR
              ELSE Rat(a[1] * b[1], a[2] * b[2])

RDiv(a, b) == IF IsNaR(a) \/ IsNaR(b) THEN NaR
              ELSE Rat(a[1] * b[2], a[2] * b[1])

IsSquare(n) == \E k \in 0..n : k * k = n

IntSqrt(n) == CHOOSE k \in 0..n : k * k = n

\* Math.sqrt
RSqrt(a) ==
    IF IsNaR(a) \/ a[1] < 0 \/ ~IsSquare(a[1]) \/ ~IsSquare(a[2]) THEN NaR
    ELSE <<IntSqrt(a[1]), IntSqrt(a[2])>>

(***************************************************************************)
(* Vector3 values are triples <<x, y, z>> of numbers.                      *)
(***************************************************************************)
Vec(x, y, z) == <<R(x), R(y), R(z)>>

VAdd(a, b) == <<RAdd(a[1], b[1]), RAdd(a[2], b[2]), RAdd(a[3], b[3])>>

VSub(a, b) == <<RSub(a[1], b[1]), RSub(a[2], b[2]), RSub(a[3], b[3])>>

VScale(a, k) == <<RMul(a[1], k), RMul(a[2], k), RMul(a[3], k)>>

VDivide(a, k) == <<RDiv(a[1], k), RDiv(a[2], k), RDiv(a[3], k)>>

VCross(a, b) ==
    <<RSub(RMul(a[2], b[3]), RMul(a[3], b[2])),
      RSub(RMul(a[3], b[1]), RMul(a[1], b[3])),
      RSub(RMul(a[1], b[2]), RMul(a[2], b[1]))>>

VLength(a) ==
    RSqrt(RAdd(RAdd(RMul(a[1], a[1]), RMul(a[2], a[2])), RMul(a[3], a[3])))

\* v / |v|, as every normalisation in the operations computes it
VNormalize(a) == VDivide(a, VLength(a))

RECURSIVE VSum(_)
VSum(vs) == IF vs = <<>> THEN Vec(0, 0, 0) ELSE VAdd(Head(vs), VSum(Tail(vs)))

\* positions handed to addVertex and moveVertex
Origin == Vec(0, 0, 0)

PosInputs == {Origin, Vec(1, 0, 0)}

\* the corners of the unit square in the plane z = 0
Corners == <<Vec(0, 0, 0), Vec(1, 0, 0), Vec(0, 1, 0), Vec(1, 1, 0)>>

(***************************************************************************)
(* Helpers on sets and sequences.                                          *)
(***************************************************************************)
Min(S) == CHOOSE x \in S : \A y \in S : x <= y

RECURSIVE SortedSeq(_)
SortedSeq(S) == IF S = {} THEN <<>>
                ELSE <<Min(S)>> \o SortedSeq(S \ {Min(S)})

Range(s) == {s[i] : i \in DOMAIN s}

Includes(s, x) == \E i \in DOMAIN s : s[i] = x

\* Array.prototype.indexOf, 1-based; 0 when absent
IndexOf(s, x) == IF Includes(s, x) THEN Min({i \in DOMAIN s : s[i] = x}) ELSE 0

\* Array.prototype.filter(y => y # x)
RECURSIVE Without(_, _)
Without(s, x) == IF s = <<>> THEN <<>>
                 ELSE IF Head(s) = x THEN Without(Tail(s), x)
                 ELSE <<Head(s)>> \o Without(Tail(s), x)

Count(s, x) == Cardinality({i \in DOMAIN s : s[i] = x})

Put(f, k, v) == [x \in DOMAIN f \cup {k} |-> IF x = k THEN v ELSE f[x]]

Drop(f, k) == [x \in DOMAIN f \ {k} |-> f[x]]

(***************************************************************************)
(* The Mesh Store.                                                         *)
(***************************************************************************)
EmptyMesh == [vertices |-> <<>>, edges |-> <<>>, faces |-> <<>>,
              materials |-> {}, nextId |-> 0, issued |-> <<>>]

\* faulty variant: the id is recomputed from the tables, so the id of a
\* deleted element is handed out again
GenerateIdFromTables(m) ==
    LET used == DOMAIN m.vertices \cup DOMAIN m.edges \cup DOMAIN m.faces
                  \cup m.materials
        id == Min(0..Len(m.issued) \ used)
    IN [id |-> id,
        mesh |-> [m EXCEPT !.nextId = id + 1, !.issued = Append(@, id)]]

\* generateId(): return this.nextId++
GenerateId(m) ==
    [id |-> m.nextId,
     mesh |-> [m EXCEPT !.nextId = @ + 1, !.issued = Append(@, m.nextId)]]

\* addVertex(position)
AddVertexM(m, pos) ==
    LET g == GenerateId(m)
    IN [id |-> g.id,
        mesh |-> [g.mesh EXCEPT !.vertices = Put(@, g.id, [position |-> pos])]]

\* moveVertex(id, newPosition)
MoveVertexM(m, id, pos) ==
    IF id \notin DOMAIN m.vertices THEN m
    ELSE [m EXCEPT !.vertices[id].position = pos]

\* addEdge(vertexId1, vertexId2); ok = FALSE when it throws
AddEdgeM(m, a, b) ==
    IF a \notin DOMAIN m.vertices \/ b \notin DOMAIN m.vertices
    THEN [ok |-> FALSE, id |-> None, mesh |-> m]
    ELSE LET g == GenerateId(m)
         IN [ok |-> TRUE, id |-> g.id,
             mesh |-> [g.mesh EXCEPT !.edges =
                         Put(@, g.id, [vertexIds |-> <<a, b>>,
                                       faceIds |-> <<>>])]]

\* the first edge, in table order, joining a and b in either direction
\* (the search loop of addFace, and getEdge(a, b))
GetEdge(m, a, b) ==
    LET M == {e \in DOMAIN m.edges :
                \/ m.edges[e].vertexIds = <<a, b>>
                \/ m.edges[e].vertexIds = <<b, a>>}
    IN IF M = {} THEN None ELSE Min(M)

\* faulty variant: a reused edge gets the face id pushed without the
\* includes() test
AddFaceStepNoTest(st, id, a, b) ==
    LET m == st.mesh
        e == GetEdge(m, a, b)
    IN IF e # None
       THEN [mesh |-> [m EXCEPT !.edges[e].faceIds = Append(@, id)],
             edgeIds |-> Append(st.edgeIds, e)]
       ELSE LET r == AddEdgeM(m, a, b)
            IN [mesh |-> [r.mesh EXCEPT !.edges[r.id].faceIds = Append(@, id)],
                edgeIds |-> Append(st.edgeIds, r.id)]

\* faulty variant: an existing edge is reused only when it runs from a to b
AddFaceStepOneDirection(st, id, a, b) ==
    LET m == st.mesh
        M == {e \in DOMAIN m.edges : m.edges[e].vertexIds = <<a, b>>}
    IN IF M # {}
       THEN [mesh |-> IF Includes(m.edges[Min(M)].faceIds, id) THEN m
                      ELSE [m EXCEPT !.edges[Min(M)].faceIds = Append(@, id)],
             edgeIds |-> Append(st.edgeIds, Min(M))]
       ELSE LET r == AddEdgeM(m, a, b)
            IN [mesh |-> [r.mesh EXCEPT !.edges[r.id].faceIds = Append(@, id)],
                edgeIds |-> Append(st.edgeIds, r.id)]

\* one turn of addFace's loop over the consecutive vertex pairs
\* st = [mesh, edgeIds]
AddFaceStep(st, id, a, b) ==
    LET m == st.mesh
        e == GetEdge(m, a, b)
    IN IF e # None
       THEN [mesh |-> IF Includes(m.edges[e].faceIds, id) THEN m
                      ELSE [m EXCEPT !.edges[e].faceIds = Append(@, id)],
             edgeIds |-> Append(st.edgeIds, e)]
       ELSE LET r == AddEdgeM(m, a, b)
            IN [mesh |-> [r.mesh EXCEPT !.edges[r.id].faceIds = Append(@, id)],
                edgeIds |-> Append(st.edgeIds, r.id)]

RECURSIVE AddFaceLoop(_, _, _, _)
AddFaceLoop(st, id, vids, i) ==
    IF i > Len(vids) THEN st
    ELSE AddFaceLoop(AddFaceStep(st, id, vids[i], vids[(i % Len(vids)) + 1]),
                     id, vids, i + 1)

\* faulty variant: the face id is generated before the arguments are
\* validated, so a throwing call still advances the counter
AddFaceIdFirst(m, vids, mat) ==
    LET g == GenerateId(m)
        st == AddFaceLoop([mesh |-> g.mesh, edgeIds |-> <<>>], g.id, vids, 1)
        uvs == [i \in DOMAIN vids |-> <<R(0), R(0)>>]
    IN IF Len(vids) < 3 \/ \E i \in DOMAIN vids : vids[i] \notin DOMAIN m.vertices
       THEN [ok |-> FALSE, id |-> None, mesh |-> g.mesh]
       ELSE [ok |-> TRUE, id |-> g.id,
             mesh |-> [st.mesh EXCEPT !.faces =
                         Put(@, g.id, [vertexIds |-> vids,
                                       edgeIds |-> st.edgeIds,
                                       materialId |-> mat,
                                       uvs |-> uvs])]]

\* addFace(vertexIds, materialId); ok = FALSE when it throws
AddFaceM(m, vids, mat) ==
    IF Len(vids) < 3 \/ \E i \in DOMAIN vids : vids[i] \notin DOMAIN m.vertices
    THEN [ok |-> FALSE, id |-> None, mesh |-> m]
    ELSE LET g == GenerateId(m)
             st == AddFaceLoop([mesh |-> g.mesh, edgeIds |-> <<>>], g.id, vids, 1)
             uvs == [i \in DOMAIN vids |-> <<R(0), R(0)>>]
         IN [ok |-> TRUE, id |-> g.id,
             mesh |-> [st.mesh EXCEPT !.faces =
                         Put(@, g.id, [vertexIds |-> vids,
                                       edgeIds |-> st.edgeIds,
                                       materialId |-> mat,
                                       uvs |-> uvs])]]

\* faulty variant: the face is taken off the first of its edges only
DetachFaceOnce(edges, eids, id) ==
    IF eids = <<>> \/ Head(eids) \notin DOMAIN edges THEN edges
    ELSE [edges EXCEPT ![Head(eids)].faceIds = Without(@, id)]

\* the forEach of removeFace over face.edgeIds
RECURSIVE DetachFace(_, _, _)
DetachFace(edges, eids, id) ==
    IF eids = <<>> THEN edges
    ELSE LET e == Head(eids)
             nx == IF e \in DOMAIN edges
                   THEN [edges EXCEPT ![e].faceIds = Without(@, id)]
                   ELSE edges
         IN DetachFace(nx, Tail(eids), id)

\* faulty variant: the face is dropped but its edges keep listing it
RemoveFaceNoDetach(m, id) ==
    IF id \notin DOMAIN m.faces THEN m
    ELSE [m EXCEPT !.faces = Drop(@, id)]

\* removeFace(id)
RemoveFaceM(m, id) ==
    IF id \notin DOMAIN m.faces THEN m
    ELSE [m EXCEPT !.edges = DetachFace(@, m.faces[id].edgeIds, id),
                   !.faces = Drop(@, id)]

RECURSIVE RemoveFaces(_, _)
RemoveFaces(m, fids) ==
    IF fids = <<>> THEN m
    ELSE RemoveFaces(RemoveFaceM(m, Head(fids)), Tail(fids))

\* the first forEach of removeVertex: every face listed by a connected edge
\* is removed; each edge's faceIds is read when the loop reaches that edge
RECURSIVE RemoveConnectedFaces(_, _)
RemoveConnectedFaces(m, eids) ==
    IF eids = <<>> THEN m
    ELSE RemoveConnectedFaces(RemoveFaces(m, m.edges[Head(eids)].faceIds),
                              Tail(eids))

ConnectedEdges(m, id) ==
    SortedSeq({e \in DOMAIN m.edges : Includes(m.edges[e].vertexIds, id)})

\* faulty variant: the faces of the connected edges are left in the table
RemoveVertexKeepFaces(m, id) ==
    IF id \notin DOMAIN m.vertices THEN m
    ELSE LET ce == ConnectedEdges(m, id)
         IN [m EXCEPT !.edges = [e \in DOMAIN @ \ Range(ce) |-> @[e]],
                      !.vertices = Drop(@, id)]

\* faulty variant: the connected edges are left in the table
RemoveVertexKeepEdges(m, id) ==
    IF id \notin DOMAIN m.vertices THEN m
    ELSE LET ce == ConnectedEdges(m, id)
             m1 == RemoveConnectedFaces(m, ce)
         IN [m1 EXCEPT !.vertices = Drop(@, id)]

\* removeVertex(id)
RemoveVertexM(m, id) ==
    IF id \notin DOMAIN m.vertices THEN m
    ELSE LET ce == ConnectedEdges(m, id)
             m1 == RemoveConnectedFaces(m, ce)
         IN [m1 EXCEPT !.edges = [e \in DOMAIN @ \ Range(ce) |-> @[e]],
                       !.vertices = Drop(@, id)]

\* faulty variant: the uvs are stored whatever their number
UpdateFaceUVsUnchecked(m, faceId, uvs) ==
    IF faceId \notin DOMAIN m.faces THEN [ok |-> TRUE, mesh |-> m]
    ELSE [ok |-> TRUE, mesh |-> [m EXCEPT !.faces[faceId].uvs = uvs]]

\* updateFaceUVs(faceId, uvs); ok = FALSE when it throws
UpdateFaceUVsM(m, faceId, uvs) ==
    IF faceId \notin DOMAIN m.faces THEN [ok |-> TRUE, mesh |-> m]
    ELSE IF Len(uvs) # Len(m.faces[faceId].vertexIds)
    THEN [ok |-> FALSE, mesh |-> m]
    ELSE [ok |-> TRUE, mesh |-> [m EXCEPT !.faces[faceId].uvs = uvs]]

\* addMaterial(name, props)
AddMaterialM(m) ==
    LET g == GenerateId(m)
    IN [id |-> g.id, mesh |-> [g.mesh EXCEPT !.materials = @ \cup {g.id}]]

(***************************************************************************)
(* Topology operations.  Each returns                                      *)
(*   [ok, mesh, newVertexIds, newEdgeIds, newFaceIds]                      *)
(* ok = FALSE when the call throws; mesh is then the mesh as the throw     *)
(* left it, with the mutations made before it.                             *)
(***************************************************************************)
Res(ok, m, nv, ne, nf) ==
    [ok |-> ok, mesh |-> m,
     newVertexIds |-> nv, newEdgeIds |-> ne, newFaceIds |-> nf]

Position(m, v) == m.vertices[v].position

\* Array.prototype.splice(idx, 1, ...new), idx 1-based
SpliceReplace(s, idx, new) ==
    SubSeq(s, 1, idx - 1) \o new \o SubSeq(s, idx + 1, Len(s))

\* Array.prototype.splice(idx, 0, ...new), idx 1-based
SpliceInsert(s, idx, new) ==
    SubSeq(s, 1, idx - 1) \o new \o SubSeq(s, idx, Len(s))

\* calculateFaceNormal throws: fewer than 3 vertices, or one of the first
\* three is undefined
FaceNormalThrows(m, vids) ==
    \/ Len(vids) < 3
    \/ \E i \in 1..3 : vids[i] \notin DOMAIN m.vertices

\* calculateFaceNormal(vertices)
CalculateFaceNormal(m, vids) ==
    LET v1 == Position(m, vids[1])
        v2 == Position(m, vids[2])
        v3 == Position(m, vids[3])
    IN VNormalize(VCross(VSub(v2, v1), VSub(v3, v1)))

\* extrudeFace: the map creating one translated vertex per face vertex
\* st = [ok, mesh, ids]
RECURSIVE ExtrudeVertices(_, _, _, _)
ExtrudeVertices(st, vids, dir, distance) ==
    IF vids = <<>> THEN st
    ELSE IF Head(vids) \notin DOMAIN st.mesh.vertices
    THEN [st EXCEPT !.ok = FALSE]
    ELSE LET r == AddVertexM(st.mesh,
                     VAdd(Position(st.mesh, Head(vids)), VScale(dir, distance)))
         IN ExtrudeVertices([ok |-> TRUE, mesh |-> r.mesh,
                             ids |-> Append(st.ids, r.id)],
                            Tail(vids), dir, distance)

\* extrudeFace: the loop creating the side edges old[i] -> new[i]
RECURSIVE ExtrudeSideEdges(_, _, _, _)
ExtrudeSideEdges(st, old, new, i) ==
    IF i > Len(old) THEN st
    ELSE LET r == AddEdgeM(st.mesh, old[i], new[i])
         IN ExtrudeSideEdges([mesh |-> r.mesh, ids |-> Append(st.ids, r.id)],
                             old, new, i + 1)

\* extrudeFace: the loop creating the side quads
RECURSIVE ExtrudeSideFaces(_, _, _, _)
ExtrudeSideFaces(st, old, new, i) ==
    IF i > Len(old) THEN st
    ELSE LET n == (i % Len(old)) + 1
             r == AddFaceM(st.mesh, <<old[i], old[n], new[n], new[i]>>, None)
         IN ExtrudeSideFaces([mesh |-> r.mesh, ids |-> Append(st.ids, r.id)],
                             old, new, i + 1)

\* extrudeFace(mesh, faceId, {distance, direction, createCap});
\* direction is <<>> when the option is left out
ExtrudeFaceM(m, faceId, distance, direction, createCap) ==
    IF faceId \notin DOMAIN m.faces THEN Res(FALSE, m, <<>>, <<>>, <<>>)
    ELSE LET vids == m.faces[faceId].vertexIds
         IN IF direction = <<>> /\ FaceNormalThrows(m, vids)
            THEN Res(FALSE, m, <<>>, <<>>, <<>>)
            ELSE
            LET dir == IF direction = <<>> THEN CalculateFaceNormal(m, vids)
                       ELSE direction[1]
                vs == ExtrudeVertices([ok |-> TRUE, mesh |-> m, ids |-> <<>>],
                                      vids, dir, distance)
            IN IF ~vs.ok THEN Res(FALSE, vs.mesh, vs.ids, <<>>, <<>>)
               ELSE
               LET es == ExtrudeSideEdges([mesh |-> vs.mesh, ids |-> <<>>],
                                          vids, vs.ids, 1)
                   fs == ExtrudeSideFaces([mesh |-> es.mesh, ids |-> <<>>],
                                          vids, vs.ids, 1)
                   cap == AddFaceM(fs.mesh, vs.ids, None)
               IN IF createCap
                  THEN Res(TRUE, cap.mesh, vs.ids, es.ids, Append(fs.ids, cap.id))
                  ELSE Res(TRUE, fs.mesh, vs.ids, es.ids, fs.ids)

\* calculateBevelDirection throws: the edge has no face, a listed face is
\* undefined, or a face normal cannot be computed
BevelDirectionThrows(m, edgeId) ==
    LET fids == m.edges[edgeId].faceIds
    IN \/ fids = <<>>
       \/ \E i \in DOMAIN fids :
             \/ fids[i] \notin DOMAIN m.faces
             \/ FaceNormalThrows(m, m.faces[fids[i]].vertexIds)

\* calculateBevelDirection(edge, mesh)
CalculateBevelDirection(m, edgeId) ==
    LET edge == m.edges[edgeId]
        normals == [i \in DOMAIN edge.faceIds |->
                      CalculateFaceNormal(m, m.faces[edge.faceIds[i]].vertexIds)]
        avgNormal == VDivide(VSum(normals), R(Len(normals)))
        edgeVector == VSub(Position(m, edge.vertexIds[2]),
                           Position(m, edge.vertexIds[1]))
    IN VNormalize(VCross(edgeVector, avgNormal))

\* the vertex positions of bevelEdge, two per step i = 0..segments
BevelPositions(m, edgeId, width, segments, profile) ==
    LET edge == m.edges[edgeId]
        p1 == Position(m, edge.vertexIds[1])
        edgeVector == VSub(Position(m, edge.vertexIds[2]), p1)
        bevelDir == CalculateBevelDirection(m, edgeId)
        t(i) == RDiv(R(i), R(segments))
        s(i) == RSub(RMul(R(2), t(i)), R(1))
        w(i) == RMul(width, RSub(R(1), RMul(RMul(s(i), s(i)), profile)))
        along(i) == VAdd(p1, VScale(edgeVector, t(i)))
    IN [k \in 1..(2 * (segments + 1)) |->
          LET i == (k - 1) \div 2
          IN IF k % 2 = 1 THEN VAdd(along(i), VScale(bevelDir, w(i)))
             ELSE VSub(along(i), VScale(bevelDir, w(i)))]

\* Math.sin(t * Math.PI) where the model can hold it
SinPi(t) == IF t = R(0) THEN R(0) ELSE IF t = <<1, 2>> THEN R(1) ELSE NaR

\* the vertex positions of chamferEdge, two per step i = 0..segments
ChamferPositions(m, edgeId, width, segments, profile) ==
    LET edge == m.edges[edgeId]
        p1 == Position(m, edge.vertexIds[1])
        edgeDir == VSub(Position(m, edge.vertexIds[2]), p1)
        edgeLength == VLength(edgeDir)
        normalizedDir == VDivide(edgeDir, edgeLength)
        bevelDir == CalculateBevelDirection(m, edgeId)
        t(i) == RDiv(R(i), R(segments))
        offset(i) == RMul(width, IF profile = R(0) THEN R(1) ELSE SinPi(t(i)))
        along(i) == VAdd(p1, VScale(VScale(normalizedDir, t(i)), edgeLength))
    IN [k \in 1..(2 * (segments + 1)) |->
          LET i == (k - 1) \div 2
          IN VAdd(along(i),
                  VScale(VScale(bevelDir, offset(i)),
                         IF k % 2 = 1 THEN R(1) ELSE R(-1)))]

RECURSIVE AddVertices(_, _)
AddVertices(st, ps) ==
    IF ps = <<>> THEN st
    ELSE LET r == AddVertexM(st.mesh, Head(ps))
         IN AddVertices([mesh |-> r.mesh, ids |-> Append(st.ids, r.id)], Tail(ps))

\* bevelEdge / chamferEdge: the loop creating four edges and one quad per
\* segment; st = [mesh, edgeIds, faceIds]; nv is 1-based
RECURSIVE StitchStrip(_, _, _, _)
StitchStrip(st, nv, segments, i) ==
    IF i >= segments THEN st
    ELSE LET b == 2 * i + 1
             n == 2 * (i + 1) + 1
             e1 == AddEdgeM(st.mesh, nv[b], nv[n])
             e2 == AddEdgeM(e1.mesh, nv[b + 1], nv[n + 1])
             e3 == AddEdgeM(e2.mesh, nv[b], nv[b + 1])
             e4 == AddEdgeM(e3.mesh, nv[n], nv[n + 1])
             f == AddFaceM(e4.mesh, <<nv[b], nv[n], nv[n + 1], nv[b + 1]>>, None)
         IN StitchStrip([mesh |-> f.mesh,
                         edgeIds |-> st.edgeIds \o <<e1.id, e2.id, e3.id, e4.id>>,
                         faceIds |-> Append(st.faceIds, f.id)],
                        nv, segments, i + 1)

\* bevelEdge / chamferEdge / subdivideEdge: in a face, the first slot of
\* edgeIds holding the old edge is replaced by the new edge ids
ReplaceEdgeInFace(face, edgeId, new) ==
    LET idx == IndexOf(face.edgeIds, edgeId)
    IN IF idx = 0 THEN face
       ELSE [face EXCEPT !.edgeIds = SpliceReplace(@, idx, new)]

\* bevelEdge / chamferEdge: the forEach over edge.faceIds
RECURSIVE SpliceIntoFaces(_, _, _, _)
SpliceIntoFaces(m, fids, edgeId, new) ==
    IF fids = <<>> THEN m
    ELSE SpliceIntoFaces(
           [m EXCEPT !.faces[Head(fids)] = ReplaceEdgeInFace(@, edgeId, new)],
           Tail(fids), edgeId, new)

\* the part bevelEdge and chamferEdge share, from the new vertices on
OffsetEdge(m, edgeId, segments, positions) ==
    LET vs == AddVertices([mesh |-> m, ids |-> <<>>], positions)
        st == StitchStrip([mesh |-> vs.mesh, edgeIds |-> <<>>, faceIds |-> <<>>],
                          vs.ids, segments, 0)
        m1 == SpliceIntoFaces(st.mesh, m.edges[edgeId].faceIds, edgeId, st.edgeIds)
    IN Res(TRUE, [m1 EXCEPT !.edges = Drop(@, edgeId)],
           vs.ids, st.edgeIds, st.faceIds)

\* what bevelEdge and chamferEdge throw on before they change anything
OffsetEdgeThrows(m, edgeId) ==
    \/ edgeId \notin DOMAIN m.edges
    \/ \E i \in 1..2 : m.edges[edgeId].vertexIds[i] \notin DOMAIN m.vertices
    \/ BevelDirectionThrows(m, edgeId)

\* bevelEdge(mesh, edgeId, {width, segments, profile})
BevelEdgeM(m, edgeId, width, segments, profile) ==
    IF OffsetEdgeThrows(m, edgeId) THEN Res(FALSE, m, <<>>, <<>>, <<>>)
    ELSE OffsetEdge(m, edgeId, segments,
                    BevelPositions(m, edgeId, width, segments, profile))

\* chamferEdge(mesh, edgeId, {width, segments, profile})
ChamferEdgeM(m, edgeId, width, segments, profile) ==
    IF OffsetEdgeThrows(m, edgeId) THEN Res(FALSE, m, <<>>, <<>>, <<>>)
    ELSE OffsetEdge(m, edgeId, segments,
                    ChamferPositions(m, edgeId, width, segments, profile))

\* the endpoint of an edge that is not vertexId (the edge's second
\* endpoint when the first is vertexId, else its first)
OtherEnd(m, e, vertexId) ==
    IF m.edges[e].vertexIds[1] = vertexId THEN m.edges[e].vertexIds[2]
    ELSE m.edges[e].vertexIds[1]

\* the width of bevel step i
BevelWidth(width, segments, profile, i) ==
    LET t == RDiv(R(i), R(segments))
        s == RSub(RMul(R(2), t), R(1))
    IN RMul(width, RSub(R(1), RMul(RMul(s, s), profile)))

\* calculateAverageDirection(edges, vertexId, mesh)
CalculateAverageDirection(m, ce, vertexId) ==
    LET directions == [i \in DOMAIN ce |->
                         VSub(Position(m, OtherEnd(m, ce[i], vertexId)),
                              Position(m, vertexId))]
    IN VNormalize(VDivide(VSum(directions), R(Len(directions))))

RECURSIVE AddEdgeChain(_, _, _)
AddEdgeChain(st, prev, rest) ==
    IF rest = <<>> THEN st
    ELSE LET r == AddEdgeM(st.mesh, prev, Head(rest))
         IN AddEdgeChain([mesh |-> r.mesh, ids |-> Append(st.ids, r.id)],
                         Head(rest), Tail(rest))

\* bevelVertex / mergeVertices: the endpoint of edge e equal to old (the
\* first one, when both are) is redirected to new
RedirectEdge(edge, old, new) ==
    IF edge.vertexIds[1] = old THEN [edge EXCEPT !.vertexIds[1] = new]
    ELSE [edge EXCEPT !.vertexIds[2] = new]

RedirectEdges(m, ce, old, new) ==
    [m EXCEPT !.edges = [e \in DOMAIN @ |->
                           IF e \in Range(ce) THEN RedirectEdge(@[e], old, new)
                           ELSE @[e]]]

\* bevelVertex(mesh, vertexId, {width, segments, profile})
BevelVertexM(m, vertexId, width, segments, profile) ==
    IF vertexId \notin DOMAIN m.vertices THEN Res(FALSE, m, <<>>, <<>>, <<>>)
    ELSE LET ce == ConnectedEdges(m, vertexId)
         IN IF \E i \in DOMAIN ce :
                  OtherEnd(m, ce[i], vertexId) \notin DOMAIN m.vertices
            THEN Res(FALSE, m, <<>>, <<>>, <<>>)
            ELSE
            LET avgDir == CalculateAverageDirection(m, ce, vertexId)
                ps == [k \in 1..(segments + 1) |->
                         VAdd(Position(m, vertexId),
                              VScale(avgDir,
                                     BevelWidth(width, segments, profile, k - 1)))]
                vs == AddVertices([mesh |-> m, ids |-> <<>>], ps)
                es == AddEdgeChain([mesh |-> vs.mesh, ids |-> <<>>],
                                   Head(vs.ids), Tail(vs.ids))
            IN Res(TRUE, RedirectEdges(es.mesh, ce, vertexId, vs.ids[1]),
                   vs.ids, es.ids, <<>>)

\* chamferVertex: the loop creating the cycle of edges over the new vertices
RECURSIVE ChamferCycle(_, _, _)
ChamferCycle(st, nv, i) ==
    IF i > Len(nv) THEN st
    ELSE LET r == AddEdgeM(st.mesh, nv[i], nv[(i % Len(nv)) + 1])
         IN ChamferCycle([mesh |-> r.mesh, ids |-> Append(st.ids, r.id)], nv, i + 1)

\* chamferVertex: the loop creating the fan of triangles
RECURSIVE ChamferFan(_, _, _, _)
ChamferFan(st, vertexId, nv, i) ==
    IF i > Len(nv) THEN st
    ELSE LET r == AddFaceM(st.mesh, <<vertexId, nv[i], nv[(i % Len(nv)) + 1]>>, None)
         IN ChamferFan([mesh |-> r.mesh, ids |-> Append(st.ids, r.id)],
                       vertexId, nv, i + 1)

\* chamferVertex: the inner forEach over one edge's faceIds; st = [ok, mesh]
RECURSIVE ChamferFaces(_, _, _, _)
ChamferFaces(st, fids, vertexId, nv) ==
    IF fids = <<>> \/ ~st.ok THEN st
    ELSE IF Head(fids) \notin DOMAIN st.mesh.faces
    THEN [st EXCEPT !.ok = FALSE]
    ELSE LET idx == IndexOf(st.mesh.faces[Head(fids)].vertexIds, vertexId)
             m1 == IF idx = 0 THEN st.mesh
                   ELSE [st.mesh EXCEPT !.faces[Head(fids)].vertexIds =
                                          SpliceReplace(@, idx, nv)]
         IN ChamferFaces([ok |-> TRUE, mesh |-> m1], Tail(fids), vertexId, nv)

\* chamferVertex: the outer forEach over the connected edges
RECURSIVE ChamferUpdate(_, _, _, _)
ChamferUpdate(st, ce, vertexId, nv) ==
    IF ce = <<>> \/ ~st.ok THEN st
    ELSE ChamferUpdate(
           ChamferFaces(st, st.mesh.edges[Head(ce)].faceIds, vertexId, nv),
           Tail(ce), vertexId, nv)

\* chamferVertex(mesh, vertexId, {width})
ChamferVertexM(m, vertexId, width) ==
    IF vertexId \notin DOMAIN m.vertices THEN Res(FALSE, m, <<>>, <<>>, <<>>)
    ELSE LET ce == ConnectedEdges(m, vertexId)
         IN IF \/ Len(ce) < 2
               \/ \E i \in DOMAIN ce :
                    OtherEnd(m, ce[i], vertexId) \notin DOMAIN m.vertices
            THEN Res(FALSE, m, <<>>, <<>>, <<>>)
            ELSE
            LET ps == [i \in DOMAIN ce |->
                         VAdd(Position(m, vertexId),
                              VScale(VNormalize(
                                       VSub(Position(m, OtherEnd(m, ce[i], vertexId)),
                                            Position(m, vertexId))),
                                     width))]
                vs == AddVertices([mesh |-> m, ids |-> <<>>], ps)
                es == ChamferCycle([mesh |-> vs.mesh, ids |-> <<>>], vs.ids, 1)
                fs == ChamferFan([mesh |-> es.mesh, ids |-> <<>>],
                                 vertexId, vs.ids, 1)
                up == ChamferUpdate([ok |-> TRUE, mesh |-> fs.mesh],
                                    ce, vertexId, vs.ids)
            IN Res(up.ok, up.mesh, vs.ids, es.ids, fs.ids)

\* subdivideEdge: the vertices of the adjacent faces other than the edge's
\* endpoints (the Set connectedVertices)
SmoothNeighbours(m, edgeId) ==
    LET edge == m.edges[edgeId]
    IN UNION {Range(m.faces[edge.faceIds[i]].vertexIds) : i \in DOMAIN edge.faceIds}
         \ Range(edge.vertexIds)

\* subdivideEdge with smooth throws: an adjacent face or one of its other
\* vertices is undefined
SmoothThrows(m, edgeId) ==
    \/ \E i \in DOMAIN m.edges[edgeId].faceIds :
          m.edges[edgeId].faceIds[i] \notin DOMAIN m.faces
    \/ ~(SmoothNeighbours(m, edgeId) \subseteq DOMAIN m.vertices)

\* subdivideEdge: the position of inserted vertex i
SubdividePosition(m, edgeId, segments, smooth, i) ==
    LET edge == m.edges[edgeId]
        p1 == Position(m, edge.vertexIds[1])
        segmentVector == VDivide(VSub(Position(m, edge.vertexIds[2]), p1),
                                 R(segments))
        position == VAdd(p1, VScale(segmentVector, R(i)))
        nb == SortedSeq(SmoothNeighbours(m, edgeId))
        avg == VSum([k \in DOMAIN nb |-> Position(m, nb[k])])
    IN IF smooth /\ nb # <<>>
       THEN VDivide(VAdd(position, VDivide(avg, R(Len(nb)))), R(2))
       ELSE position

\* subdivideEdge: the update of one adjacent face
SubdivideFaceUpdate(face, edge, edgeId, newEdges, newVertices) ==
    LET edgeIndex == IndexOf(face.edgeIds, edgeId)
        v1Index == IndexOf(face.vertexIds, edge.vertexIds[1])
        v2Index == IndexOf(face.vertexIds, edge.vertexIds[2])
    IN IF edgeIndex = 0 THEN face
       ELSE [face EXCEPT
               !.edgeIds = SpliceReplace(@, edgeIndex, newEdges),
               !.vertexIds = IF v1Index # 0 /\ v2Index # 0
                             THEN SpliceInsert(@, v2Index, newVertices)
                             ELSE @]

\* subdivideEdge: the forEach over edge.faceIds; st = [ok, mesh]
RECURSIVE SubdivideFaces(_, _, _, _, _, _)
SubdivideFaces(st, fids, edge, edgeId, newEdges, newVertices) ==
    IF fids = <<>> \/ ~st.ok THEN st
    ELSE IF Head(fids) \notin DOMAIN st.mesh.faces
    THEN [st EXCEPT !.ok = FALSE]
    ELSE SubdivideFaces(
           [ok |-> TRUE,
            mesh |-> [st.mesh EXCEPT !.faces[Head(fids)] =
                        SubdivideFaceUpdate(@, edge, edgeId, newEdges, newVertices)]],
           Tail(fids), edge, edgeId, newEdges, newVertices)

\* subdivideEdge: the old edge is removed once the faces are updated
SubdivideClose(up, edgeId, newVertices, newEdges) ==
    IF ~up.ok THEN Res(FALSE, up.mesh, newVertices, newEdges, <<>>)
    ELSE Res(TRUE, [up.mesh EXCEPT !.edges = Drop(@, edgeId)],
             newVertices, newEdges, <<>>)

\* subdivideEdge: with the new edges es made, the faces are updated
SubdivideUpdate(edge, edgeId, newVertices, es) ==
    SubdivideClose(SubdivideFaces([ok |-> TRUE, mesh |-> es.mesh],
                                  edge.faceIds, edge, edgeId, es.ids,
                                  newVertices),
                   edgeId, newVertices, es.ids)

\* subdivideEdge: with the new vertices vs made, the chain of new edges
\* is made from the first endpoint to the second
SubdivideChain(edge, edgeId, vs) ==
    SubdivideUpdate(edge, edgeId, vs.ids,
                    AddEdgeChain([mesh |-> vs.mesh, ids |-> <<>>],
                                 edge.vertexIds[1],
                                 Append(vs.ids, edge.vertexIds[2])))

\* subdivideEdge(mesh, edgeId, {segments, smooth})
SubdivideEdgeM(m, edgeId, segments, smooth) ==
    IF edgeId \notin DOMAIN m.edges THEN Res(FALSE, m, <<>>, <<>>, <<>>)
    ELSE LET edge == m.edges[edgeId]
         IN IF \/ \E i \in 1..2 : edge.vertexIds[i] \notin DOMAIN m.vertices
               \/ (smooth /\ segments > 1 /\ SmoothThrows(m, edgeId))
            THEN Res(FALSE, m, <<>>, <<>>, <<>>)
            ELSE SubdivideChain(
                   edge, edgeId,
                   AddVertices([mesh |-> m, ids |-> <<>>],
                               [i \in 1..(segments - 1) |->
                                  SubdividePosition(m, edgeId, segments,
                                                    smooth, i)]))

\* subdivideFace: the ids in subResult r are pushed onto the result
SubdivideCollect(st, r) ==
    [ok |-> r.ok, mesh |-> r.mesh,
     newVertexIds |-> IF r.ok THEN st.newVertexIds \o r.newVertexIds
                      ELSE st.newVertexIds,
     newEdgeIds |-> IF r.ok THEN st.newEdgeIds \o r.newEdgeIds
                    ELSE st.newEdgeIds]

\* subdivideFace: face.edgeIds.forEach over the live array: index k runs
\* over the length the array had at the start, and reads the slot as the
\* earlier calls left it; st = [ok, mesh, newVertexIds, newEdgeIds]
RECURSIVE SubdivideEach(_, _, _, _, _, _)
SubdivideEach(st, faceId, k, n, segments, smooth) ==
    IF k > n \/ ~st.ok THEN st
    ELSE SubdivideEach(
           SubdivideCollect(st, SubdivideEdgeM(st.mesh,
                                               st.mesh.faces[faceId].edgeIds[k],
                                               segments, smooth)),
           faceId, k + 1, n, segments, smooth)

SubdivideResult(r) == Res(r.ok, r.mesh, r.newVertexIds, r.newEdgeIds, <<>>)

\* subdivideFace(mesh, faceId, {segments, smooth})
SubdivideFaceM(m, faceId, segments, smooth) ==
    IF faceId \notin DOMAIN m.faces THEN Res(FALSE, m, <<>>, <<>>, <<>>)
    ELSE SubdivideResult(
           SubdivideEach([ok |-> TRUE, mesh |-> m,
                          newVertexIds |-> <<>>, newEdgeIds |-> <<>>],
                         faceId, 1, Len(m.faces[faceId].edgeIds),
                         segments, smooth))

\* the elements of s in order of first occurrence (insertion into a Set)
RECURSIVE Dedupe(_)
Dedupe(s) ==
    IF s = <<>> THEN <<>>
    ELSE LET d == Dedupe(SubSeq(s, 1, Len(s) - 1))
         IN IF Includes(d, s[Len(s)]) THEN d ELSE Append(d, s[Len(s)])

RECURSIVE Flatten(_)
Flatten(ss) == IF ss = <<>> THEN <<>> ELSE Head(ss) \o Flatten(Tail(ss))

\* mergeVertices: the forEach over connectedFaces; the first slot of
\* face.vertexIds holding vertexId is redirected to the survivor
\* st = [ok, mesh, updatedFaceIds]
RECURSIVE MergeFaces(_, _, _, _)
MergeFaces(st, fids, vertexId, survivor) ==
    IF fids = <<>> \/ ~st.ok THEN st
    ELSE IF Head(fids) \notin DOMAIN st.mesh.faces
    THEN [st EXCEPT !.ok = FALSE]
    ELSE LET idx == IndexOf(st.mesh.faces[Head(fids)].vertexIds, vertexId)
         IN MergeFaces(
              IF idx = 0 THEN st
              ELSE [st EXCEPT
                      !.mesh.faces[Head(fids)].vertexIds[idx] = survivor,
                      !.updatedFaceIds = Append(@, Head(fids))],
              Tail(fids), vertexId, survivor)

\* mergeVertices: the loop over vertexIds[1..]
\* st = [ok, mesh, removedVertexIds, updatedEdgeIds, updatedFaceIds]
RECURSIVE MergeLoop(_, _, _)
MergeLoop(st, rest, survivor) ==
    IF rest = <<>> \/ ~st.ok THEN st
    ELSE LET vertexId == Head(rest)
             ce == ConnectedEdges(st.mesh, vertexId)
             m1 == RedirectEdges(st.mesh, ce, vertexId, survivor)
             connectedFaces == Dedupe(Flatten([i \in DOMAIN ce |->
                                                m1.edges[ce[i]].faceIds]))
             fs == MergeFaces([ok |-> TRUE, mesh |-> m1,
                               updatedFaceIds |-> st.updatedFaceIds],
                              connectedFaces, vertexId, survivor)
         IN MergeLoop(
              [ok |-> fs.ok,
               mesh |-> IF fs.ok
                        THEN [fs.mesh EXCEPT !.vertices =
                                [v \in DOMAIN @ \ {vertexId} |-> @[v]]]
                        ELSE fs.mesh,
               removedVertexIds |-> IF fs.ok THEN Append(st.removedVertexIds, vertexId)
                                    ELSE st.removedVertexIds,
               updatedEdgeIds |-> st.updatedEdgeIds \o ce,
               updatedFaceIds |-> fs.updatedFaceIds],
              Tail(rest), survivor)

\* the faceIds of edge pushed onto existing unless already included
RECURSIVE UnionFaceIds(_, _)
UnionFaceIds(existing, fids) ==
    IF fids = <<>> THEN existing
    ELSE UnionFaceIds(IF Includes(existing, Head(fids)) THEN existing
                      ELSE Append(existing, Head(fids)),
                      Tail(fids))

\* mergeVertices: the forEach over result.updatedEdgeIds removing the
\* duplicate edges; edgeMap maps the key "a,b" of an edge's ordered endpoint
\* pair to the first updated edge with that key; st = [ok, mesh, edgeMap]
RECURSIVE MergeDuplicates(_, _)
MergeDuplicates(st, eids) ==
    IF eids = <<>> \/ ~st.ok THEN st
    ELSE LET edgeId == Head(eids)
         IN IF edgeId \notin DOMAIN st.mesh.edges
            THEN [st EXCEPT !.ok = FALSE]
            ELSE
            LET edge == st.mesh.edges[edgeId]
                key == edge.vertexIds
            IN IF key \notin DOMAIN st.edgeMap
               THEN MergeDuplicates(
                      [st EXCEPT !.edgeMap = Put(@, key, edgeId)], Tail(eids))
               ELSE
               LET ex == st.edgeMap[key]
               IN IF ex \notin DOMAIN st.mesh.edges
                  THEN IF edge.faceIds = <<>>
                       THEN MergeDuplicates(
                              [st EXCEPT !.mesh.edges = Drop(@, edgeId)],
                              Tail(eids))
                       ELSE [st EXCEPT !.ok = FALSE]
                  ELSE MergeDuplicates(
                         [st EXCEPT !.mesh.edges =
                            Drop([@ EXCEPT ![ex].faceIds =
                                    UnionFaceIds(@, edge.faceIds)], edgeId)],
                         Tail(eids))

MergeRes(ok, m, merged, removed, ue, uf) ==
    [ok |-> ok, mesh |-> m, mergedVertexId |-> merged,
     removedVertexIds |-> removed, updatedEdgeIds |-> ue, updatedFaceIds |-> uf]

\* mergeVertices(mesh, vertexIds, {position}); position is <<>> when the
\* option is left out
MergeVerticesM(m, vertexIds, position) ==
    IF Len(vertexIds) < 2 THEN MergeRes(FALSE, m, None, <<>>, <<>>, <<>>)
    ELSE IF \/ (position = <<>> /\
                \E i \in DOMAIN vertexIds : vertexIds[i] \notin DOMAIN m.vertices)
            \/ vertexIds[1] \notin DOMAIN m.vertices
    THEN MergeRes(FALSE, m, vertexIds[1], <<>>, <<>>, <<>>)
    ELSE LET pos == IF position # <<>> THEN position[1]
                    ELSE VDivide(VSum([i \in DOMAIN vertexIds |->
                                         Position(m, vertexIds[i])]),
                                 R(Len(vertexIds)))
             m1 == [m EXCEPT !.vertices[vertexIds[1]].position = pos]
             lp == MergeLoop([ok |-> TRUE, mesh |-> m1,
                              removedVertexIds |-> <<>>,
                              updatedEdgeIds |-> <<>>, updatedFaceIds |-> <<>>],
                             Tail(vertexIds), vertexIds[1])
             dd == MergeDuplicates([ok |-> lp.ok, mesh |-> lp.mesh,
                                    edgeMap |-> <<>>],
                                   lp.updatedEdgeIds)
         IN MergeRes(dd.ok, dd.mesh, vertexIds[1], lp.removedVertexIds,
                     lp.updatedEdgeIds, lp.updatedFaceIds)

\* Array.prototype.reverse
Reverse(s) == [i \in DOMAIN s |-> s[Len(s) + 1 - i]]

AxisIndex(axis) == IF axis = "x" THEN 1 ELSE IF axis = "y" THEN 2 ELSE 3

\* faulty variant: the coordinate is negated whatever the origin
MirrorPositionAboutZero(p, axis, o) ==
    LET k == AxisIndex(axis)
    IN [p EXCEPT ![k] = RSub(R(0), @)]

\* mirrorMesh: the new value of one vertex position
MirrorPosition(p, axis, o) ==
    LET k == AxisIndex(axis)
    IN [p EXCEPT ![k] = RSub(o[k], RSub(p[k], o[k]))]

\* mirrorMesh(mesh, {axis, origin}); origin is <<>> when the option is left
\* out
MirrorMeshM(m, axis, origin) ==
    LET o == IF origin = <<>> THEN Vec(0, 0, 0) ELSE origin[1]
    IN [m EXCEPT
          !.vertices = [v \in DOMAIN @ |->
                          [@[v] EXCEPT !.position = MirrorPosition(@, axis, o)]],
          !.faces = [f \in DOMAIN @ |->
                       [@[f] EXCEPT !.vertexIds = Reverse(@)]]]

(***************************************************************************)
(* smoothMesh.  The options object is a function from the names of the     *)
(* options the caller gives to their values.  The positions smoothed lie   *)
(* on a line, so every distance is rational: a NaR distance is NaN, and a  *)
(* weight is a positive rational, Infinity (distance 0) or NaR (NaN).      *)
(***************************************************************************)
\* a destructured option: the value given, else the default
Option(options, name, default) ==
    IF name \in DOMAIN options THEN options[name] ELSE default

\* featureAngle = 30
DefaultFeatureAngle == 30

Infinity == <<1, 0>>

RLess(a, b) == ~IsNaR(a) /\ ~IsNaR(b) /\ a[1] * b[2] < b[1] * a[2]

\* faulty variant: alpha is not tested
SmoothReturnsEarlyOnIterations(iterations, alpha) == iterations <= 0

\* iterations <= 0 || alpha <= 0
SmoothReturnsEarly(iterations, alpha) ==
    iterations <= 0 \/ (~IsNaR(alpha) /\ alpha[1] <= 0)

\* Math.max(0, Math.min(1, alpha))
SmoothingFactor(alpha) ==
    IF IsNaR(alpha) THEN NaR
    ELSE IF RLess(R(1), alpha) THEN R(1)
    ELSE IF RLess(alpha, R(0)) THEN R(0) ELSE alpha

\* [v1, v2].sort().join('-'): the key is used to compare pairs and to get
\* the two ids back, for which the order sort() puts them in does not count
EdgeKey(a, b) == IF a <= b THEN <<a, b>> ELSE <<b, a>>

\* the consecutive vertex pairs of all faces, as <<face, index>>
FaceSlots(m) ==
    UNION {{<<f, i>> : i \in DOMAIN m.faces[f].vertexIds} : f \in DOMAIN m.faces}

SlotKey(m, slot) ==
    LET vids == m.faces[slot[1]].vertexIds
    IN EdgeKey(vids[slot[2]], vids[(slot[2] % Len(vids)) + 1])

\* edgeFaceCount.get(edgeKey)
EdgeFaceCount(m, key) ==
    Cardinality({slot \in FaceSlots(m) : SlotKey(m, slot) = key})

VerticesInFaces(m) == UNION {Range(m.faces[f].vertexIds) : f \in DOMAIN m.faces}

\* the set isBoundaryVertex
BoundaryVertices(m, preserveBoundaries) ==
    IF ~preserveBoundaries THEN {}
    ELSE (UNION {Range(SlotKey(m, slot)) :
                   slot \in {s \in FaceSlots(m) :
                               EdgeFaceCount(m, SlotKey(m, s)) = 1}})
           \cup (DOMAIN m.vertices \ VerticesInFaces(m))

ConnectedFaces(m, v) == {f \in DOMAIN m.faces : Includes(m.faces[f].vertexIds, v)}

\* mesh.getVertex(f.vertexIds[k])!.position throws on a missing vertex
FeatureThrows(m, preserveFeatures) ==
    /\ preserveFeatures
    /\ \E v \in DOMAIN m.vertices : \E f \in ConnectedFaces(m, v) :
         \E k \in 1..3 :
            \/ k > Len(m.faces[f].vertexIds)
            \/ m.faces[f].vertexIds[k] \notin DOMAIN m.vertices

VDot(a, b) == RAdd(RAdd(RMul(a[1], b[1]), RMul(a[2], b[2])), RMul(a[3], b[3]))

\* computeNormal on the first three vertices of the face: not normalised
ComputeNormal(m, f) ==
    LET p == [k \in 1..3 |-> m.vertices[m.faces[f].vertexIds[k]].position]
    IN VCross(VSub(p[2], p[1]), VSub(p[3], p[1]))

\* Math.acos(d) > featureAngle * Math.PI / 180 for featureAngle = 30: acos
\* is NaN outside [-1, 1] and falls from pi to 0 inside, and
\* cos(pi/6)^2 = 3/4
ExceedsFeatureAngle(d, featureAngle) ==
    /\ featureAngle = DefaultFeatureAngle
    /\ ~IsNaR(d)
    /\ ~RLess(d, R(-1)) /\ ~RLess(R(1), d)
    /\ (RLess(d, R(0)) \/ RLess(RMul(R(4), RMul(d, d)), R(3)))

\* the set isFeatureVertex
FeatureVertices(m, preserveFeatures, featureAngle) ==
    IF ~preserveFeatures THEN {}
    ELSE {v \in DOMAIN m.vertices :
            \E f, g \in ConnectedFaces(m, v) :
               /\ f < g
               /\ ExceedsFeatureAngle(VDot(ComputeNormal(m, f),
                                           ComputeNormal(m, g)), featureAngle)}

\* the other end of an edge that ends at v, None for any other edge
NeighborId(edge, v) ==
    IF edge.vertexIds[1] = v THEN edge.vertexIds[2]
    ELSE IF edge.vertexIds[2] = v THEN edge.vertexIds[1] ELSE None

\* distance(v1, v2)
Distance(a, b) == VLength(VSub(b, a))

\* useWeights ? 1 / distance(...) : 1
Weight(a, b, useWeights) ==
    IF ~useWeights THEN R(1)
    ELSE LET d == Distance(a, b)
         IN IF IsNaR(d) THEN NaR
            ELSE IF d = R(0) THEN Infinity ELSE RDiv(R(1), d)

\* vertexNeighbors.get(v): one entry per edge at v, in table order, whose
\* other end exists
Neighbors(m, v, useWeights) ==
    LET es == SortedSeq({e \in DOMAIN m.edges :
                           NeighborId(m.edges[e], v) \in DOMAIN m.vertices})
    IN [i \in DOMAIN es |->
          LET n == NeighborId(m.edges[es[i]], v)
          IN [id |-> n,
              weight |-> Weight(m.vertices[v].position,
                                m.vertices[n].position, useWeights)]]

\* totalWeight after the loop over the neighbors
RECURSIVE TotalWeight(_)
TotalWeight(ns) ==
    IF ns = <<>> THEN R(0)
    ELSE LET w == Head(ns).weight
             t == TotalWeight(Tail(ns))
         IN IF w = NaR \/ t = NaR THEN NaR
            ELSE IF w = Infinity \/ t = Infinity THEN Infinity
            ELSE RAdd(w, t)

\* weightedSum after the loop over the neighbors
RECURSIVE WeightedSum(_, _)
WeightedSum(m, ns) ==
    IF ns = <<>> THEN Vec(0, 0, 0)
    ELSE VAdd(VScale(m.vertices[Head(ns).id].position, Head(ns).weight),
              WeightedSum(m, Tail(ns)))

\* old + smoothingFactor * (average - old)
SmoothedPosition(old, sum, total, factor) ==
    VAdd(old, VScale(VSub(VDivide(sum, total), old), factor))

\* whether a round sets a new position for v
SmoothMoves(v, preserved, ns) ==
    /\ v \notin preserved
    /\ ns # <<>>
    /\ LET t == TotalWeight(ns)
       IN t = Infinity \/ RLess(R(0), t)

\* faulty variant: each new position is written to the mesh as soon as it
\* is computed, so that the vertices visited later read it
RECURSIVE SmoothInTurn(_, _, _, _, _)
SmoothInTurn(m, vs, preserved, nb, factor) ==
    IF vs = <<>> THEN m
    ELSE SmoothInTurn(
           IF SmoothMoves(Head(vs), preserved, nb[Head(vs)])
           THEN [m EXCEPT !.vertices[Head(vs)].position =
                   SmoothedPosition(@, WeightedSum(m, nb[Head(vs)]),
                                    TotalWeight(nb[Head(vs)]), factor)]
           ELSE m,
           Tail(vs), preserved, nb, factor)

SmoothRoundInPlace(m, preserved, nb, factor) ==
    SmoothInTurn(m, SortedSeq(DOMAIN m.vertices), preserved, nb, factor)

\* one round: every new position is computed from the positions before the
\* round, then all are applied by moveVertex
SmoothRound(m, preserved, nb, factor) ==
    [m EXCEPT !.vertices =
        [v \in DOMAIN @ |->
           IF SmoothMoves(v, preserved, nb[v])
           THEN [@[v] EXCEPT !.position =
                    SmoothedPosition(@, WeightedSum(m, nb[v]),
                                     TotalWeight(nb[v]), factor)]
           ELSE @[v]]]

RECURSIVE SmoothRounds(_, _, _, _, _)
SmoothRounds(m, iterations, preserved, nb, factor) ==
    IF iterations <= 0 THEN m
    ELSE SmoothRounds(SmoothRound(m, preserved, nb, factor), iterations - 1,
                      preserved, nb, factor)

\* faulty variant: the neighbors are never weighted by distance
SmoothPrepareUnweighted(m, pb, pf, angle, useWeights, iterations, factor) ==
    SmoothRounds(m, iterations,
                 BoundaryVertices(m, pb) \cup FeatureVertices(m, pf, angle),
                 [v \in DOMAIN m.vertices |-> Neighbors(m, v, FALSE)], factor)

\* the precomputation of the preserved vertices and of the neighborhoods,
\* then the rounds
SmoothPrepare(m, pb, pf, angle, useWeights, iterations, factor) ==
    SmoothRounds(m, iterations,
                 BoundaryVertices(m, pb) \cup FeatureVertices(m, pf, angle),
                 [v \in DOMAIN m.vertices |-> Neighbors(m, v, useWeights)],
                 factor)

\* smoothMesh(mesh, options); ok = FALSE when it throws
SmoothMeshM(m, options) ==
    LET iterations == Option(options, "iterations", 1)
        alpha == Option(options, "alpha", R(1))
        pb == Option(options, "preserveBoundaries", TRUE)
        pf == Option(options, "preserveFeatures", TRUE)
        angle == Option(options, "featureAngle", DefaultFeatureAngle)
        useWeights == Option(options, "useWeights", TRUE)
    IN IF SmoothReturnsEarly(iterations, alpha)
       THEN Res(TRUE, m, <<>>, <<>>, <<>>)
       ELSE IF FeatureThrows(m, pf) THEN Res(FALSE, m, <<>>, <<>>, <<>>)
       ELSE Res(TRUE,
                SmoothPrepare(m, pb, pf, angle, useWeights, iterations,
                              SmoothingFactor(alpha)), <<>>, <<>>, <<>>)

(***************************************************************************)
(* validateTopology.  An issue is a record of its type, elementType and    *)
(* elementId; the issue on the whole mesh has no elementId and carries the *)
(* number of components its description prints.                            *)
(***************************************************************************)
Issue(type, elementType, elementId) ==
    [type |-> type, elementType |-> elementType, elementId |-> elementId]

\* one issue of a type for each id of a set, in ascending order
IssuesFor(type, elementType, ids) ==
    LET s == SortedSeq(ids)
    IN [i \in DOMAIN s |-> Issue(type, elementType, s[i])]

\* faulty variant: a vertex of no face is taken for one of no edge
VerticesOfNoFace(m) ==
    {v \in DOMAIN m.vertices :
       ~\E f \in DOMAIN m.faces : Includes(m.faces[f].vertexIds, v)}

\* 1. the vertices whose list in vertexToEdgeMap stays empty
OrphanedVertices(m) ==
    {v \in DOMAIN m.vertices :
       ~\E e \in DOMAIN m.edges : Includes(m.edges[e].vertexIds, v)}

\* 2a. vertexIds.length < 3 || vertexIds.length > 4
InvalidFaceSize(vids) == Len(vids) < 3 \/ Len(vids) > 4

\* the squared magnitude of the cross product of a triangle's two edges
CrossSquared(p0, p1, p2) ==
    LET c == VCross(VSub(p1, p0), VSub(p2, p0)) IN VDot(c, c)

\* getFaceArea(faceVertices) < VERY_SMALL_AREA.  The area is half the
\* square root of CrossSquared, summed over the two triangles of a quad;
\* a positive rational of the model is at least 2^-31, whose half square
\* root exceeds 1e-9, so the area is below 1e-9 exactly when every
\* CrossSquared is 0.  A NaN area is not below it.
AreaIsVerySmall(ps) ==
    /\ CrossSquared(ps[1], ps[2], ps[3]) = R(0)
    /\ Len(ps) = 4 => CrossSquared(ps[1], ps[3], ps[4]) = R(0)

\* faceVertices.length === vertexIds.length
AllVerticesExist(m, vids) == \A i \in DOMAIN vids : vids[i] \in DOMAIN m.vertices

FacePositions(m, vids) == [i \in DOMAIN vids |-> m.vertices[vids[i]].position]

\* 2b.
DegenerateFace(m, vids) ==
    AllVerticesExist(m, vids) /\ AreaIsVerySmall(FacePositions(m, vids))

\* [...vertexIds].sort().join(','): two keys are equal when the lists hold
\* the same ids the same number of times
SameVertexKey(s, t) ==
    /\ Len(s) = Len(t)
    /\ \A x \in Range(s) \cup Range(t) : Count(s, x) = Count(t, x)

\* 2c. the key of the face is already in faceVertexKeys: an earlier face
\* of valid size has it
OverlappingFace(m, f) ==
    \E g \in DOMAIN m.faces :
       /\ g < f
       /\ ~InvalidFaceSize(m.faces[g].vertexIds)
       /\ SameVertexKey(m.faces[g].vertexIds, m.faces[f].vertexIds)

RAbs(a) == <<Abs(a[1]), a[2]>>

\* isQuadPlanar(verts, tolerance = 1e-5)
IsQuadPlanar(ps) ==
    LET normal == VCross(VSub(ps[2], ps[1]), VSub(ps[3], ps[1]))
        dist == VDot(normal, VSub(ps[4], ps[1]))
    IN RLess(RAbs(dist), Rat(1, 100000))

\* 2d.
NonPlanarQuad(m, vids) ==
    /\ Len(vids) = 4
    /\ AllVerticesExist(m, vids)
    /\ ~IsQuadPlanar(FacePositions(m, vids))

\* 2. the issues of one face
FaceIssues(m, f) ==
    LET vids == m.faces[f].vertexIds
        One(type) == <<Issue(type, "face", f)>>
    IN IF InvalidFaceSize(vids) THEN One("invalid-face-size")
       ELSE (IF DegenerateFace(m, vids) THEN One("degenerate-face") ELSE <<>>)
            \o (IF OverlappingFace(m, f) THEN One("overlapping-face") ELSE <<>>)
            \o (IF NonPlanarQuad(m, vids) THEN One("non-planar-quad") ELSE <<>>)

\* faulty variant: an edge of two faces is reported as non-manifold
EdgeIssuesOverOne(m, e) ==
    LET faceCount == Len(m.edges[e].faceIds)
        One(type) == <<Issue(type, "edge", e)>>
    IN (IF faceCount = 0 THEN One("isolated-edge") ELSE <<>>)
       \o (IF faceCount > 1 THEN One("non-manifold-edge") ELSE <<>>)

\* 3. the issues of one edge
EdgeIssues(m, e) ==
    LET faceCount == Len(m.edges[e].faceIds)
        One(type) == <<Issue(type, "edge", e)>>
    IN (IF faceCount = 0 THEN One("isolated-edge") ELSE <<>>)
       \o (IF faceCount > 2 THEN One("non-manifold-edge") ELSE <<>>)

\* faulty variant: the walk goes on to every face with a common vertex
FaceNeighborsByVertex(m, f) ==
    IF f \notin DOMAIN m.faces THEN {}
    ELSE {g \in DOMAIN m.faces \ {f} :
            Range(m.faces[g].vertexIds) \cap Range(m.faces[f].vertexIds) # {}}

\* the face ids the walk pushes from a face: those in the faceIds of the
\* existing edges of its edgeIds; none from an id that names no face
FaceNeighbors(m, f) ==
    IF f \notin DOMAIN m.faces THEN {}
    ELSE (UNION {Range(m.edges[e].faceIds) :
                   e \in Range(m.faces[f].edgeIds) \cap DOMAIN m.edges}) \ {f}

\* visitedFaces when the stack has emptied
RECURSIVE Visit(_, _)
Visit(m, visited) ==
    LET more == (UNION {FaceNeighbors(m, f) : f \in visited}) \ visited
    IN IF more = {} THEN visited ELSE Visit(m, visited \cup more)

\* componentCount after the forEach over the remaining face ids
RECURSIVE CountComponents(_, _, _)
CountComponents(m, fs, visited) ==
    IF fs = <<>> THEN 0
    ELSE IF Head(fs) \in visited THEN CountComponents(m, Tail(fs), visited)
    ELSE 1 + CountComponents(m, Tail(fs), Visit(m, visited \cup {Head(fs)}))

ComponentCount(m) == CountComponents(m, SortedSeq(DOMAIN m.faces), {})

\* 4.
ComponentIssues(m) ==
    IF DOMAIN m.faces # {} /\ ComponentCount(m) > 1
    THEN <<[type |-> "isolated-component", elementType |-> "mesh",
            components |-> ComponentCount(m)]>>
    ELSE <<>>

\* the list of issues
TopologyIssues(m) ==
    IF DOMAIN m.vertices = {} THEN <<>>
    ELSE LET fs == SortedSeq(DOMAIN m.faces)
             es == SortedSeq(DOMAIN m.edges)
         IN IssuesFor("orphaned-vertex", "vertex", OrphanedVertices(m))
            \o Flatten([i \in DOMAIN fs |-> FaceIssues(m, fs[i])])
            \o Flatten([i \in DOMAIN es |-> EdgeIssues(m, es[i])])
            \o ComponentIssues(m)

\* Array.prototype.sort on ids
RECURSIVE SortIds(_)
SortIds(s) ==
    IF s = <<>> THEN <<>>
    ELSE LET i == IndexOf(s, Min(Range(s)))
         IN <<s[i]>> \o SortIds(SubSeq(s, 1, i - 1) \o SubSeq(s, i + 1, Len(s)))

\* faulty variant: the face's own vertexIds array is sorted for the key of
\* the overlap test, not a copy of it
ValidateSortingInPlace(m) ==
    [ok |-> TRUE, issues |-> TopologyIssues(m),
     mesh |-> IF DOMAIN m.vertices = {} THEN m
              ELSE [m EXCEPT !.faces =
                      [f \in DOMAIN @ |->
                         IF InvalidFaceSize(@[f].vertexIds) THEN @[f]
                         ELSE [@[f] EXCEPT !.vertexIds = SortIds(@)]]]]

\* validateTopology(mesh): it has no statement that throws on a mesh whose
\* elements hold their fields, and none that writes to the mesh
ValidateTopologyM(m) ==
    [ok |-> TRUE, issues |-> TopologyIssues(m), mesh |-> m]

(***************************************************************************)
(* The record of the last call: its name, whether it returned normally,   *)
(* its id arguments, the ids it returned, and the ids of the elements it  *)
(* removed from the tables.                                                *)
(***************************************************************************)
Keys(m) == DOMAIN m.vertices \cup DOMAIN m.edges \cup DOMAIN m.faces

Call(op, ok, args, nv, ne, nf, pre, post) ==
    [op |-> op, ok |-> ok, args |-> args,
     newVertexIds |-> nv, newEdgeIds |-> ne, newFaceIds |-> nf,
     gone |-> Keys(pre) \ Keys(post)]

NoCall == Call("new", TRUE, <<>>, <<>>, <<>>, <<>>, EmptyMesh, EmptyMesh)

\* ids a caller may name for a table: the keys of the table and one id
\* that is not a key (a lookup of any absent id gives undefined)
Targets(m, keys) == keys \cup {Min(0..m.nextId \ keys)}

VertexTargets(m) == Targets(m, DOMAIN m.vertices)

EdgeTargets(m) == Targets(m, DOMAIN m.edges)

FaceTargets(m) == Targets(m, DOMAIN m.faces)

\* vertex lists a caller may pass to addFace
VertexLists(m) == UNION {[1..n -> VertexTargets(m)] : n \in 2..MaxFaceLen}

\* the lists of existing vertices that make a face
FaceLists(m) == [1..MaxFaceLen -> DOMAIN m.vertices]

\* those that name different vertices in ascending order
SimpleFaceLists(m) ==
    {vids \in FaceLists(m) : \A i, j \in DOMAIN vids : i < j => vids[i] < vids[j]}

(***************************************************************************)
(* Actions of the Mesh Store.  calls counts the creating calls made so far *)
(* by kind; the bounds cap them.                                           *)
(***************************************************************************)
NoCalls ==
    [vertex |-> 0, edge |-> 0, face |-> 0, material |-> 0, op |-> 0,
     change |-> 0, edit |-> 0]

Made(kind) == [calls EXCEPT ![kind] = @ + 1]

\* a moving or removing call; where counted, the bound caps these calls
Changing(counted) ==
    /\ counted => calls.change < MaxChangeCalls
    /\ calls' = IF counted THEN Made("change") ELSE calls
    /\ UNCHANGED <<twin, modeler>>

\* no second mesh has been made from the mesh
NoTwin == <<>>

\* the modeler store as it is created: no objects and an empty history;
\* pending counts the saveToHistory calls that edits have deferred and that
\* have not run yet, nextId the object ids handed out
initialState ==
    [objects |-> <<>>, history |-> [past |-> <<>>, future |-> <<>>],
     pending |-> 0, nextId |-> 0]

StoreInit ==
    /\ mesh = EmptyMesh /\ last = NoCall /\ calls = NoCalls /\ twin = NoTwin
    /\ modeler = initialState

AddVertexAt(positions) ==
    /\ calls.vertex < MaxVertexCalls
    /\ \E pos \in positions :
         LET r == AddVertexM(mesh, pos)
         IN /\ mesh' = r.mesh
            /\ last' = Call("addVertex", TRUE, <<>>, <<r.id>>, <<>>, <<>>,
                            mesh, r.mesh)
    /\ calls' = Made("vertex")
    /\ UNCHANGED <<twin, modeler>>

AddVertex == AddVertexAt(PosInputs)

MoveVertexOf(targets, positions, counted) ==
    /\ \E id \in targets, pos \in positions :
        /\ mesh' = MoveVertexM(mesh, id, pos)
        /\ last' = Call("moveVertex", TRUE, <<id>>, <<>>, <<>>, <<>>,
                        mesh, mesh')
    /\ Changing(counted)

MoveVertex == MoveVertexOf(VertexTargets(mesh), PosInputs, FALSE)

RemoveVertexOf(targets, counted) ==
    /\ \E id \in targets :
        /\ mesh' = RemoveVertexM(mesh, id)
        /\ last' = Call("removeVertex", TRUE, <<id>>, <<>>, <<>>, <<>>,
                        mesh, mesh')
    /\ Changing(counted)

RemoveVertex == RemoveVertexOf(VertexTargets(mesh), FALSE)

AddEdgeOf(pairs) ==
    /\ calls.edge < MaxEdgeCalls
    /\ \E pair \in pairs :
        LET r == AddEdgeM(mesh, pair[1], pair[2])
        IN /\ mesh' = r.mesh
           /\ last' = Call("addEdge", r.ok, <<>>, <<>>,
                           IF r.ok THEN <<r.id>> ELSE <<>>, <<>>,
                           mesh, r.mesh)
           /\ calls' = IF r.ok THEN Made("edge") ELSE calls
    /\ UNCHANGED <<twin, modeler>>

AddEdge == AddEdgeOf(VertexTargets(mesh) \X VertexTargets(mesh))

AddFaceOf(lists) ==
    /\ calls.face < MaxFaceCalls
    /\ \E vids \in lists :
        LET r == AddFaceM(mesh, vids, None)
        IN /\ mesh' = r.mesh
           /\ last' = Call("addFace", r.ok, <<>>, <<>>, <<>>,
                           IF r.ok THEN <<r.id>> ELSE <<>>, mesh, r.mesh)
           /\ calls' = IF r.ok THEN Made("face") ELSE calls
    /\ UNCHANGED <<twin, modeler>>

AddFace == AddFaceOf(VertexLists(mesh))

RemoveFaceOf(targets, counted) ==
    /\ \E id \in targets :
        /\ mesh' = RemoveFaceM(mesh, id)
        /\ last' = Call("removeFace", TRUE, <<id>>, <<>>, <<>>, <<>>,
                        mesh, mesh')
    /\ Changing(counted)

RemoveFace == RemoveFaceOf(FaceTargets(mesh), FALSE)

AddMaterial ==
    /\ calls.material < MaxMaterialCalls
    /\ LET r == AddMaterialM(mesh)
       IN /\ mesh' = r.mesh
          /\ last' = Call("addMaterial", TRUE, <<>>, <<>>, <<>>, <<>>,
                          mesh, r.mesh)
    /\ calls' = Made("material")
    /\ UNCHANGED <<twin, modeler>>

StoreNext ==
    \/ AddVertex
    \/ MoveVertex
    \/ RemoveVertex
    \/ AddEdge
    \/ AddFace
    \/ RemoveFace

SpecStore == StoreInit /\ [][StoreNext]_vars

\* The creating and removing calls alone.  The n-th vertex is added at
\* the n-th corner of the unit square.
AddVertexCorner == AddVertexAt({Corners[(calls.vertex % Len(Corners)) + 1]})

IdsNext ==
    \/ AddVertexCorner
    \/ AddEdge
    \/ AddFace
    \/ AddMaterial
    \/ RemoveFace
    \/ RemoveVertex

SpecIds == StoreInit /\ [][IdsNext]_vars

(***************************************************************************)
(* Actions of the Topology Operations, each applied to an existing target. *)
(* A call that throws keeps what it had written to the mesh before.        *)
(***************************************************************************)
Segments == {2}

Widths == {R(1)}

Profiles == {R(0)}

\* the optional extrusion direction: left out, or +z
Directions == {<<>>, <<Vec(0, 0, 1)>>}

Axes == {"x", "y", "z"}

\* lists of two or three different existing vertices
MergeLists(m) ==
    {vids \in UNION {[1..n -> DOMAIN m.vertices] : n \in 2..MaxFaceLen} :
       \A i, j \in DOMAIN vids : i # j => vids[i] # vids[j]}

\* the bookkeeping of a topology call with result r
\* the store's mutators applied to existing targets
MoveExistingVertex == MoveVertexOf(DOMAIN mesh.vertices, {Vec(1, 1, 0)}, TRUE)

AddEdgeBetweenExisting ==
    AddEdgeOf((DOMAIN mesh.vertices) \X (DOMAIN mesh.vertices))

\* between two different vertices, the smaller id first
AddSimpleEdge ==
    AddEdgeOf({p \in (DOMAIN mesh.vertices) \X (DOMAIN mesh.vertices) : p[1] < p[2]})

AddFaceOnExisting == AddFaceOf(FaceLists(mesh))

AddSimpleFace == AddFaceOf(SimpleFaceLists(mesh))

RemoveExistingFace == RemoveFaceOf(DOMAIN mesh.faces, TRUE)

RemoveExistingVertex == RemoveVertexOf(DOMAIN mesh.vertices, TRUE)

Ran(op, args, r) ==
    /\ mesh' = r.mesh
    /\ last' = Call(op, r.ok, args,
                    IF r.ok THEN r.newVertexIds ELSE <<>>,
                    IF r.ok THEN r.newEdgeIds ELSE <<>>,
                    IF r.ok THEN r.newFaceIds ELSE <<>>, mesh, r.mesh)
    /\ calls' = Made("op")
    /\ UNCHANGED <<twin, modeler>>

ExtrudeFace ==
    /\ calls.op < MaxOpCalls
    /\ \E f \in DOMAIN mesh.faces, d \in Widths, dir \in Directions,
          cap \in BOOLEAN :
         Ran("extrudeFace", <<f>>, ExtrudeFaceM(mesh, f, d, dir, cap))

BevelEdge ==
    /\ calls.op < MaxOpCalls
    /\ \E e \in DOMAIN mesh.edges, w \in Widths, n \in Segments,
          p \in Profiles :
         Ran("bevelEdge", <<e>>, BevelEdgeM(mesh, e, w, n, p))

BevelVertex ==
    /\ calls.op < MaxOpCalls
    /\ \E v \in DOMAIN mesh.vertices, w \in Widths, n \in Segments,
          p \in Profiles :
         Ran("bevelVertex", <<v>>, BevelVertexM(mesh, v, w, n, p))

ChamferVertex ==
    /\ calls.op < MaxOpCalls
    /\ \E v \in DOMAIN mesh.vertices, w \in Widths :
         Ran("chamferVertex", <<v>>, ChamferVertexM(mesh, v, w))

ChamferEdge ==
    /\ calls.op < MaxOpCalls
    /\ \E e \in DOMAIN mesh.edges, w \in Widths, n \in Segments,
          p \in Profiles :
         Ran("chamferEdge", <<e>>, ChamferEdgeM(mesh, e, w, n, p))

SubdivideEdge ==
    /\ calls.op < MaxOpCalls
    /\ \E e \in DOMAIN mesh.edges, n \in Segments, smooth \in BOOLEAN :
         Ran("subdivideEdge", <<e>>, SubdivideEdgeM(mesh, e, n, smooth))

SubdivideFace ==
    /\ calls.op < MaxOpCalls
    /\ \E f \in DOMAIN mesh.faces, n \in Segments, smooth \in BOOLEAN :
         Ran("subdivideFace", <<f>>, SubdivideFaceM(mesh, f, n, smooth))

MergeVertices ==
    /\ calls.op < MaxOpCalls
    /\ \E vids \in MergeLists(mesh) :
         LET r == MergeVerticesM(mesh, vids, <<>>)
         IN Ran("mergeVertices", vids,
                Res(r.ok, r.mesh, <<>>, <<>>, <<>>))

MirrorMesh ==
    /\ calls.op < MaxOpCalls
    /\ \E axis \in Axes :
         Ran("mirrorMesh", <<>>,
             Res(TRUE, MirrorMeshM(mesh, axis, <<>>), <<>>, <<>>, <<>>))

OpsNext ==
    \/ AddVertexCorner
    \/ MoveExistingVertex
    \/ AddSimpleEdge
    \/ AddSimpleFace
    \/ RemoveExistingFace
    \/ RemoveExistingVertex
    \/ ExtrudeFace
    \/ BevelEdge
    \/ BevelVertex
    \/ ChamferVertex
    \/ ChamferEdge
    \/ SubdivideEdge
    \/ SubdivideFace
    \/ MergeVertices
    \/ MirrorMesh

SpecOps == StoreInit /\ [][OpsNext]_vars

\* mergeVertices on the meshes the store's mutators build
MergeNext ==
    \/ AddVertexCorner
    \/ AddEdgeBetweenExisting
    \/ AddFaceOnExisting
    \/ RemoveExistingFace
    \/ RemoveExistingVertex
    \/ MergeVertices

SpecMerge == StoreInit /\ [][MergeNext]_vars

(***************************************************************************)
(* clone().  The copy's tables hold new element objects made by object     *)
(* spread: each has the fields of the original's element, so the position  *)
(* object of a vertex and the vertexIds, faceIds and edgeIds arrays of an  *)
(* edge or a face are the same objects in both meshes.  twin.shared names, *)
(* field by field, the elements whose field is still one object in both    *)
(* meshes: writing into the object shows in both, assigning the field a    *)
(* new object ends the sharing.                                            *)
(***************************************************************************)
CloneM(m) ==
    [mesh |-> m,
     shared |-> [position |-> DOMAIN m.vertices,
                 ends |-> DOMAIN m.edges,
                 faceIds |-> DOMAIN m.edges,
                 vertexIds |-> DOMAIN m.faces,
                 edgeIds |-> DOMAIN m.faces]]

\* mesh y after the writes that took mesh x to x2 went into shared objects
Propagate(y, x2, sh) ==
    [y EXCEPT
       !.vertices = [v \in DOMAIN @ |->
          IF v \in sh.position \cap DOMAIN x2.vertices
          THEN [@[v] EXCEPT !.position = x2.vertices[v].position] ELSE @[v]],
       !.edges = [e \in DOMAIN @ |->
          [vertexIds |-> IF e \in sh.ends \cap DOMAIN x2.edges
                         THEN x2.edges[e].vertexIds ELSE @[e].vertexIds,
           faceIds |-> IF e \in sh.faceIds \cap DOMAIN x2.edges
                       THEN x2.edges[e].faceIds ELSE @[e].faceIds]],
       !.faces = [f \in DOMAIN @ |->
          [@[f] EXCEPT
             !.vertexIds = IF f \in sh.vertexIds \cap DOMAIN x2.faces
                           THEN x2.faces[f].vertexIds ELSE @,
             !.edgeIds = IF f \in sh.edgeIds \cap DOMAIN x2.faces
                         THEN x2.faces[f].edgeIds ELSE @]]]

Sides == IF twin = NoTwin THEN {"original"} ELSE {"original", "clone"}

MeshOf(side) == IF side = "original" THEN mesh ELSE twin.mesh

\* the call on one side took that mesh to x2 and left the sharing sh
Settle(side, x2, sh) ==
    IF twin = NoTwin THEN mesh' = x2 /\ twin' = twin
    ELSE IF side = "original"
    THEN /\ mesh' = x2
         /\ twin' = [mesh |-> Propagate(twin.mesh, x2, sh), shared |-> sh]
    ELSE /\ mesh' = Propagate(mesh, x2, sh)
         /\ twin' = [mesh |-> x2, shared |-> sh]

Shared == IF twin = NoTwin THEN CloneM(EmptyMesh).shared ELSE twin.shared

CloneMesh ==
    /\ twin = NoTwin
    /\ twin' = CloneM(mesh)
    /\ last' = Call("clone", TRUE, <<>>, <<>>, <<>>, <<>>, mesh, mesh)
    /\ UNCHANGED <<mesh, calls, modeler>>

\* moveVertex gives the vertex a new position object
MoveVertexOn ==
    /\ calls.change < MaxChangeCalls
    /\ \E side \in Sides : \E id \in DOMAIN MeshOf(side).vertices :
         LET x2 == MoveVertexM(MeshOf(side), id, Vec(1, 1, 0))
         IN /\ Settle(side, x2, [Shared EXCEPT !.position = @ \ {id}])
            /\ last' = Call("moveVertex", TRUE, <<id>>, <<>>, <<>>, <<>>,
                            MeshOf(side), x2)
    /\ calls' = Made("change")
    /\ UNCHANGED modeler

\* addFace pushes the new face id onto the faceIds array of each edge it
\* finds
AddFaceOn ==
    /\ calls.face < MaxFaceCalls
    /\ \E side \in Sides : \E vids \in SimpleFaceLists(MeshOf(side)) :
         LET r == AddFaceM(MeshOf(side), vids, None)
         IN /\ r.ok
            /\ Settle(side, r.mesh, Shared)
            /\ last' = Call("addFace", TRUE, <<>>, <<>>, <<>>, <<r.id>>,
                            MeshOf(side), r.mesh)
    /\ calls' = Made("face")
    /\ UNCHANGED modeler

\* removeFace gives each edge of the face a new, filtered faceIds array
RemoveFaceOn ==
    /\ calls.change < MaxChangeCalls
    /\ \E side \in Sides : \E id \in DOMAIN MeshOf(side).faces :
         LET x == MeshOf(side)
             x2 == RemoveFaceM(x, id)
         IN /\ Settle(side, x2,
                      [Shared EXCEPT
                         !.faceIds = @ \ (Range(x.faces[id].edgeIds)
                                            \cap DOMAIN x.edges)])
            /\ last' = Call("removeFace", TRUE, <<id>>, <<>>, <<>>, <<>>, x, x2)
    /\ calls' = Made("change")
    /\ UNCHANGED modeler

\* mirrorMesh writes into each position object and reverses each vertexIds
\* array in place
MirrorMeshOn ==
    /\ calls.op < MaxOpCalls
    /\ \E side \in Sides, axis \in Axes :
         LET x2 == MirrorMeshM(MeshOf(side), axis, <<>>)
         IN /\ Settle(side, x2, Shared)
            /\ last' = Call("mirrorMesh", TRUE, <<>>, <<>>, <<>>, <<>>,
                            MeshOf(side), x2)
    /\ calls' = Made("op")
    /\ UNCHANGED modeler

CloneNext ==
    \/ AddVertexCorner
    \/ AddEdgeBetweenExisting
    \/ CloneMesh
    \/ MoveVertexOn
    \/ AddFaceOn
    \/ RemoveFaceOn
    \/ MirrorMeshOn

SpecClone == StoreInit /\ [][CloneNext]_vars

(***************************************************************************)
(* Serialization.  The class declares the members listed here; a call of   *)
(* any other name on a mesh is a call of undefined and throws.             *)
(* JSON.stringify writes a mesh field by field: a Map has no properties of *)
(* its own and is written as the object {}, never as an array.             *)
(***************************************************************************)
Members ==
    {"addVertex", "removeVertex", "moveVertex", "addEdge", "addFace",
     "removeFace", "updateFaceUVs", "assignMaterial", "getVertices",
     "getFaces", "getVertex", "getEdges", "addMaterial", "selectBox",
     "computeNormals", "createUVMap", "setVertexUV", "getVertexUV",
     "createPBRMaterial", "createStandardMaterial", "updateMaterial",
     "getUVMaps", "getUVMap", "addBone", "getBone", "removeBone", "getBones",
     "addSkeleton", "getSkeleton", "removeSkeleton", "getSkeletons",
     "addAnimationClip", "getAnimationClip", "removeAnimationClip",
     "getAnimationClips", "setVertexSkinWeights", "getVertexSkinWeights",
     "getMaterials", "getFace", "addMaterialFromPreset",
     "createAnimationClip", "addKeyframeToTrack", "paintWeights", "getEdge",
     "clone"}

\* mesh[name](...) throws a TypeError
NotAFunction(name) == name \notin Members

\* a JSON value that is not an array
NotArray == [isArray |-> FALSE, items |-> <<>>]

\* JSON.stringify(mesh), parsed
Stringify(m) ==
    [nextId |-> m.nextId, vertices |-> NotArray, edges |-> NotArray,
     faces |-> NotArray, materials |-> NotArray]

\* the entries of a JSON array that fromJSON keeps; a later entry replaces
\* an earlier one of the same id
Kept(arr, field) ==
    IF ~arr.isArray THEN {}
    ELSE {i \in DOMAIN arr.items :
            /\ arr.items[i].id # None
            /\ arr.items[i][field] # None
            /\ \A j \in DOMAIN arr.items :
                 (j > i /\ arr.items[j].id = arr.items[i].id)
                    => arr.items[j][field] = None}

\* EditableMesh.fromJSON on the parsed document data
FromJSON(data) ==
    LET vs == Kept(data.vertices, "position")
        es == Kept(data.edges, "vertexIds")
        fs == Kept(data.faces, "vertexIds")
        ms == Kept(data.materials, "name")
        Entry(arr, kept, k) == arr.items[CHOOSE i \in kept : arr.items[i].id = k]
        Ids(arr, kept) == {arr.items[i].id : i \in kept}
    IN [vertices |-> [k \in Ids(data.vertices, vs) |->
                        [position |-> Entry(data.vertices, vs, k).position]],
        edges |-> [k \in Ids(data.edges, es) |->
                     [vertexIds |-> Entry(data.edges, es, k).vertexIds,
                      faceIds |-> Entry(data.edges, es, k).faceIds]],
        faces |-> [k \in Ids(data.faces, fs) |->
                     [vertexIds |-> Entry(data.faces, fs, k).vertexIds,
                      edgeIds |-> Entry(data.faces, fs, k).edgeIds,
                      materialId |-> Entry(data.faces, fs, k).materialId,
                      uvs |-> Entry(data.faces, fs, k).uvs]],
        materials |-> Ids(data.materials, ms),
        nextId |-> IF data.nextId = None THEN 0 ELSE data.nextId,
        issued |-> <<>>]

\* a mesh that shares no object with the mesh it was made from
Unshared(m) == [mesh |-> m, shared |-> CloneM(EmptyMesh).shared]

\* EditableMesh.fromJSON(mesh.toJSON()): the call of toJSON throws before
\* fromJSON is entered
RoundTrip ==
    /\ NotAFunction("toJSON")
    /\ last' = Call("fromJSON(toJSON)", FALSE, <<>>, <<>>, <<>>, <<>>,
                    mesh, mesh)
    /\ twin' = NoTwin
    /\ UNCHANGED <<mesh, calls, modeler>>

\* EditableMesh.fromJSON(JSON.stringify(mesh))
StringifyRoundTrip ==
    /\ twin' = Unshared(FromJSON(Stringify(mesh)))
    /\ last' = Call("fromJSON(stringify)", TRUE, <<>>, <<>>, <<>>, <<>>,
                    mesh, mesh)
    /\ UNCHANGED <<mesh, calls, modeler>>

JsonNext ==
    \/ AddVertexCorner
    \/ AddEdgeBetweenExisting
    \/ AddFaceOnExisting
    \/ RemoveExistingFace
    \/ RemoveExistingVertex
    \/ RoundTrip
    \/ StringifyRoundTrip

SpecJson == StoreInit /\ [][JsonNext]_vars

(***************************************************************************)
(* smoothMesh on meshes whose vertices lie on the x axis.                  *)
(***************************************************************************)
MaxLineEdges == 2

\* the n-th vertex is added at the n-th point of the line
LinePoints == <<Vec(0, 0, 0), Vec(1, 0, 0), Vec(3, 0, 0)>>

AddVertexOnLine == AddVertexAt({LinePoints[(calls.vertex % Len(LinePoints)) + 1]})

\* addEdge between two existing vertices, the smaller id first, or from a
\* vertex to itself
AddLineEdge ==
    /\ calls.edge < MaxLineEdges
    /\ \E a, b \in DOMAIN mesh.vertices :
        /\ a <= b
        /\ LET r == AddEdgeM(mesh, a, b)
           IN /\ mesh' = r.mesh
              /\ last' = Call("addEdge", TRUE, <<>>, <<>>, <<r.id>>, <<>>,
                              mesh, r.mesh)
    /\ calls' = Made("edge")
    /\ UNCHANGED <<twin, modeler>>

\* the options objects handed to smoothMesh: each option is left out or
\* given one of the values listed
Given(name, values) == {<<>>} \cup {name :> v : v \in values}

SmoothOptions ==
    {i @@ a @@ pb @@ pf @@ w :
       i \in Given("iterations", {-1, 0, 1, 2}),
       a \in Given("alpha", {R(-1), R(0), Rat(1, 2), R(1), R(2)}),
       pb \in Given("preserveBoundaries", {FALSE}),
       pf \in Given("preserveFeatures", {FALSE}),
       w \in Given("useWeights", {FALSE})}

SmoothMesh ==
    /\ calls.op < MaxOpCalls
    /\ \E options \in SmoothOptions :
         Ran("smoothMesh", <<options>>, SmoothMeshM(mesh, options))

SmoothNext ==
    \/ AddVertexOnLine
    \/ AddLineEdge
    \/ AddSimpleFace
    \/ SmoothMesh

SpecSmooth == StoreInit /\ [][SmoothNext]_vars

(***************************************************************************)
(* mirrorMesh about the plane through an origin, on store-built meshes.    *)
(***************************************************************************)
MirrorPoints == {Vec(2, 3, 4), Vec(0, 1, 0)}

\* the optional origin: left out, or (1, 2, 3)
MirrorOrigins == {<<>>, <<Vec(1, 2, 3)>>}

AddVertexToMirror == AddVertexAt(MirrorPoints)

MirrorMeshAbout ==
    /\ calls.op < MaxOpCalls
    /\ \E axis \in Axes, origin \in MirrorOrigins :
         Ran("mirrorMesh", <<axis, origin>>,
             Res(TRUE, MirrorMeshM(mesh, axis, origin), <<>>, <<>>, <<>>))

MirrorNext ==
    \/ AddVertexToMirror
    \/ AddFaceOnExisting
    \/ MirrorMeshAbout

SpecMirror == StoreInit /\ [][MirrorNext]_vars

(***************************************************************************)
(* validateTopology on the unit square and on the sample cube.             *)
(***************************************************************************)
MaxSquareVertices == 4

\* the corners of the planar unit square, in the order of its boundary
SquareCorners == <<Vec(0, 0, 0), Vec(1, 0, 0), Vec(1, 1, 0), Vec(0, 1, 0)>>

\* the positions and the faces of createSampleCube
CubeCorners ==
    <<Vec(0, 0, 0), Vec(1, 0, 0), Vec(1, 1, 0), Vec(0, 1, 0),
      Vec(0, 0, 1), Vec(1, 0, 1), Vec(1, 1, 1), Vec(0, 1, 1)>>

CubeFaces ==
    <<<<0, 1, 2, 3>>, <<1, 5, 6, 2>>, <<5, 4, 7, 6>>,
      <<4, 0, 3, 7>>, <<3, 2, 6, 7>>, <<4, 5, 1, 0>>>>

RECURSIVE AddVertexEach(_, _)
AddVertexEach(m, ps) ==
    IF ps = <<>> THEN m ELSE AddVertexEach(AddVertexM(m, Head(ps)).mesh, Tail(ps))

RECURSIVE AddFaceEach(_, _)
AddFaceEach(m, fs) ==
    IF fs = <<>> THEN m ELSE AddFaceEach(AddFaceM(m, Head(fs), None).mesh, Tail(fs))

\* EditableMesh.createSampleCube(): the ids of the eight vertices are 0..7
SampleCube == AddFaceEach(AddVertexEach(EmptyMesh, CubeCorners), CubeFaces)

\* the caller's mesh is the one createSampleCube() returns
CreateSampleCube ==
    /\ calls.op < MaxOpCalls
    /\ mesh' = SampleCube
    /\ last' = Call("createSampleCube", TRUE, <<>>, <<>>, <<>>, <<>>,
                    EmptyMesh, SampleCube)
    /\ calls' = Made("op")
    /\ UNCHANGED <<twin, modeler>>

\* addVertex at a corner of the unit square, on a mesh made by the
\* constructor
AddSquareVertex ==
    /\ calls.op = 0
    /\ calls.vertex < MaxSquareVertices
    /\ \E pos \in Range(SquareCorners) :
         LET r == AddVertexM(mesh, pos)
         IN /\ mesh' = r.mesh
            /\ last' = Call("addVertex", TRUE, <<>>, <<r.id>>, <<>>, <<>>,
                            mesh, r.mesh)
    /\ calls' = Made("vertex")
    /\ UNCHANGED <<twin, modeler>>

\* the lists of four different existing vertices
QuadLists(m) ==
    {vids \in [1..4 -> DOMAIN m.vertices] :
       \A i, j \in DOMAIN vids : i # j => vids[i] # vids[j]}

AddQuadFace == calls.op = 0 /\ AddFaceOf(QuadLists(mesh))

\* the bookkeeping of a validateTopology call with result r
Validated(r) ==
    /\ mesh' = r.mesh
    /\ last' = Call("validateTopology", r.ok, <<>>, <<>>, <<>>, <<>>,
                    mesh, r.mesh) @@ [issues |-> r.issues]
    /\ UNCHANGED <<calls, twin, modeler>>

ValidateTopology == Validated(ValidateTopologyM(mesh))

ShapesNext ==
    \/ AddSquareVertex
    \/ AddQuadFace
    \/ CreateSampleCube
    \/ ValidateTopology

SpecShapes == StoreInit /\ [][ShapesNext]_vars

(***************************************************************************)
(* validateTopology on the meshes the store's mutators and the topology    *)
(* operations build.                                                       *)
(***************************************************************************)
ValidateNext ==
    \/ OpsNext
    \/ ValidateTopology

SpecValidate == StoreInit /\ [][ValidateNext]_vars

(***************************************************************************)
(* The store's mutators together with updateFaceUVs.                       *)
(***************************************************************************)
\* the uv lists handed to updateFaceUVs: two to four entries (1, 1)
UvLists == {[i \in 1..n |-> <<R(1), R(1)>>] : n \in 2..(MaxFaceLen + 1)}

UpdateFaceUVs ==
    /\ \E f \in FaceTargets(mesh), uvs \in UvLists :
         LET r == UpdateFaceUVsM(mesh, f, uvs)
         IN /\ mesh' = r.mesh
            /\ last' = Call("updateFaceUVs", r.ok, <<f, uvs>>, <<>>, <<>>, <<>>,
                            mesh, r.mesh)
    /\ UNCHANGED <<calls, twin, modeler>>

UvNext ==
    \/ AddVertexCorner
    \/ MoveExistingVertex
    \/ AddEdgeBetweenExisting
    \/ AddFace
    \/ RemoveFace
    \/ RemoveVertex
    \/ UpdateFaceUVs

SpecUv == StoreInit /\ [][UvNext]_vars

(***************************************************************************)
(* Meshes built without a direct addEdge call: addVertex, addFace,         *)
(* removeFace and removeVertex alone, with room for a second face.         *)
(***************************************************************************)
MaxFacesOnEdges == 2

\* addFace on three existing vertices
AddFaceOnEdges ==
    /\ calls.face < MaxFacesOnEdges
    /\ \E vids \in FaceLists(mesh) :
        LET r == AddFaceM(mesh, vids, None)
        IN /\ mesh' = r.mesh
           /\ last' = Call("addFace", TRUE, <<>>, <<>>, <<>>, <<r.id>>,
                           mesh, r.mesh)
    /\ calls' = Made("face")
    /\ UNCHANGED <<twin, modeler>>

FacesNext ==
    \/ AddVertexCorner
    \/ AddFaceOnEdges
    \/ RemoveExistingFace
    \/ RemoveExistingVertex

SpecFaces == StoreInit /\ [][FacesNext]_vars

(***************************************************************************)
(* mergeVertices given any list of existing vertex ids: lists of fewer     *)
(* than two ids and lists that name a vertex more than once included.      *)
(***************************************************************************)
MergeInputs(m) == UNION {[1..n -> DOMAIN m.vertices] : n \in 0..MaxFaceLen}

\* the bookkeeping of a mergeVertices call with result r
Merged(vids, r) ==
    /\ mesh' = r.mesh
    /\ last' = Call("mergeVertices", r.ok, vids, <<>>, <<>>, <<>>,
                    mesh, r.mesh)
                 @@ [mergedVertexId |-> r.mergedVertexId,
                     removedVertexIds |-> r.removedVertexIds]
    /\ calls' = Made("op")
    /\ UNCHANGED <<twin, modeler>>

MergeVerticesGiven ==
    /\ calls.op < MaxOpCalls
    /\ \E vids \in MergeInputs(mesh) :
         Merged(vids, MergeVerticesM(mesh, vids, <<>>))

MergeGivenNext ==
    \/ AddVertexCorner
    \/ AddEdgeBetweenExisting
    \/ AddFaceOnExisting
    \/ MergeVerticesGiven

SpecMergeGiven == StoreInit /\ [][MergeGivenNext]_vars

(***************************************************************************)
(* validateTopology on meshes of several triangles: with a common edge,    *)
(* with a common vertex only, and apart.                                   *)
(***************************************************************************)
MaxIslandVertices == 6
MaxIslandFaces == 3

\* addVertex: the n-th vertex is put at the n-th corner of the cube
AddIslandVertex ==
    /\ calls.vertex < MaxIslandVertices
    /\ LET r == AddVertexM(mesh, CubeCorners[calls.vertex + 1])
       IN /\ mesh' = r.mesh
          /\ last' = Call("addVertex", TRUE, <<>>, <<r.id>>, <<>>, <<>>,
                          mesh, r.mesh)
    /\ calls' = Made("vertex")
    /\ UNCHANGED <<twin, modeler>>

\* addFace on three different existing vertices, in ascending order
AddIslandFace ==
    /\ calls.face < MaxIslandFaces
    /\ \E vids \in SimpleFaceLists(mesh) :
        LET r == AddFaceM(mesh, vids, None)
        IN /\ mesh' = r.mesh
           /\ last' = Call("addFace", TRUE, <<>>, <<>>, <<>>, <<r.id>>,
                           mesh, r.mesh)
    /\ calls' = Made("face")
    /\ UNCHANGED <<twin, modeler>>

IslandsNext ==
    \/ AddIslandVertex
    \/ AddIslandFace
    \/ ValidateTopology

SpecIslands == StoreInit /\ [][IslandsNext]_vars

(***************************************************************************)
(* smoothMesh with preserveBoundaries on meshes of up to three triangles   *)
(* over four vertices: open fans, with a vertex all of whose face edges    *)
(* have two faces, and faces that name a vertex twice.                     *)
(***************************************************************************)
MaxFanVertices == 4
MaxFanFaces == 3

\* the n-th vertex is added at the n-th of these points
FanPoints == <<Vec(0, 0, 0), Vec(2, 0, 0), Vec(0, 2, 0), Vec(0, 0, 2)>>

AddFanVertex ==
    /\ calls.vertex < MaxFanVertices
    /\ LET r == AddVertexM(mesh, FanPoints[calls.vertex + 1])
       IN /\ mesh' = r.mesh
          /\ last' = Call("addVertex", TRUE, <<>>, <<r.id>>, <<>>, <<>>,
                          mesh, r.mesh)
    /\ calls' = Made("vertex")
    /\ UNCHANGED <<twin, modeler>>

\* the lists a, b, a of two different existing vertices
FoldedLists(m) ==
    {<<a, b, a>> : a \in DOMAIN m.vertices, b \in DOMAIN m.vertices} \ 
       {<<a, a, a>> : a \in DOMAIN m.vertices}

AddFanFace ==
    /\ calls.face < MaxFanFaces
    /\ \E vids \in SimpleFaceLists(mesh) \cup FoldedLists(mesh) :
        LET r == AddFaceM(mesh, vids, None)
        IN /\ mesh' = r.mesh
           /\ last' = Call("addFace", TRUE, <<>>, <<>>, <<>>, <<r.id>>,
                           mesh, r.mesh)
    /\ calls' = Made("face")
    /\ UNCHANGED <<twin, modeler>>

\* the options: one round or two, preserveBoundaries left at its default or
\* given as true, no feature detection, the neighbors not weighted
FanOptions ==
    {i @@ a @@ pb @@ pf @@ w :
       i \in Given("iterations", {2}),
       a \in {"alpha" :> Rat(1, 2)},
       pb \in Given("preserveBoundaries", {TRUE}),
       pf \in {"preserveFeatures" :> FALSE},
       w \in {"useWeights" :> FALSE}}

SmoothFan ==
    /\ calls.op < MaxOpCalls
    /\ \E options \in FanOptions :
         Ran("smoothMesh", <<options>>, SmoothMeshM(mesh, options))

FanNext ==
    \/ AddFanVertex
    \/ AddFanFace
    \/ SmoothFan

SpecFan == StoreInit /\ [][FanNext]_vars

(***************************************************************************)
(* The creating and removing mutators with a direct addEdge call and room  *)
(* for a second face.                                                      *)
(***************************************************************************)
LinksNext ==
    \/ AddVertexCorner
    \/ AddEdgeBetweenExisting
    \/ AddFaceOnEdges
    \/ RemoveExistingFace
    \/ RemoveExistingVertex

SpecLinks == StoreInit /\ [][LinksNext]_vars

(***************************************************************************)
(* The Modeler Store.  objects is the array of scene objects; an object is *)
(* given by its id, type, name, visible flag and userData slot (the other  *)
(* fields are set once by createPrimitive and copied along).  An edit      *)
(* with autoSave on queues one saveToHistory call with setTimeout(.., 0);  *)
(* the queued calls run one at a time, after the edit has returned.        *)
(***************************************************************************)
MaxEditCalls == 3

maxHistoryStates == 20

ObjectTypes == {"box"}

\* createPrimitive: a new object under a fresh id
CreatePrimitive(type, id) ==
    [id |-> id, type |-> type, name |-> "Box", visible |-> TRUE,
     userData |-> "absent"]

\* JSON.parse(JSON.stringify(objects)): strings, numbers and booleans come
\* back as they were; a key that holds undefined is left out
JsonCopy(objects) ==
    [i \in DOMAIN objects |->
       [objects[i] EXCEPT !.userData = IF @ = "undefined" THEN "absent" ELSE @]]

\* the last n elements of an array (slice(-n)); slice(-0) is slice(0)
SliceLast(s, n) ==
    IF n = 0 \/ Len(s) <= n THEN s ELSE SubSeq(s, Len(s) - n + 1, Len(s))

\* the first n elements of an array (slice(0, n))
SliceFirst(s, n) == IF Len(s) <= n THEN s ELSE SubSeq(s, 1, n)

\* the changes a caller may pass to updateObject
Updates ==
    {"name" :> "Renamed", "visible" :> FALSE, "userData" :> "undefined"}

\* ids a caller may name: the ids of the objects and one id of no object
ObjectTargets == {modeler.objects[i].id : i \in DOMAIN modeler.objects}
                   \cup {modeler.nextId}

\* the record of an edit: the objects before and after it
Edit(op, before, after) ==
    Call(op, TRUE, <<>>, <<>>, <<>>, <<>>, mesh, mesh)
      @@ [before |-> before, after |-> after, edit |-> op]

\* what every edit does besides setting objects: it queues saveToHistory;
\* ids is the number of object ids the edit has drawn
Edited(op, objects, ids) ==
    /\ calls.edit < MaxEditCalls
    /\ modeler' = [modeler EXCEPT !.objects = objects, !.nextId = @ + ids,
                                  !.pending = @ + 1]
    /\ last' = Edit(op, modeler.objects, objects)
    /\ calls' = Made("edit")
    /\ UNCHANGED <<mesh, twin>>

AddObject ==
    \E type \in ObjectTypes :
      Edited("addObject",
             Append(modeler.objects, CreatePrimitive(type, modeler.nextId)), 1)

RemoveObject ==
    \E id \in ObjectTargets :
      Edited("removeObject",
             SelectSeq(modeler.objects, LAMBDA obj : obj.id # id), 0)

\* updateObject with changes that leave vertices, edges and faces alone
UpdateObject ==
    \E id \in ObjectTargets, updates \in Updates :
      Edited("updateObject",
             [i \in DOMAIN modeler.objects |->
                LET obj == modeler.objects[i]
                IN IF obj.id = id
                   THEN [k \in DOMAIN obj |->
                           IF k \in DOMAIN updates THEN updates[k] ELSE obj[k]]
                   ELSE obj], 0)

EditOps == {"addObject", "removeObject", "updateObject"}

\* the edit whose deferred call is the one that runs now: the edit made
\* last, when no other call is queued before its own
SavedEdit ==
    IF last.op \in EditOps /\ modeler.pending = 1
    THEN [before |-> last.before, after |-> last.after, edit |-> last.op]
    ELSE [before |-> <<>>, after |-> <<>>, edit |-> "none"]

\* a queued saveToHistory call runs
SaveToHistory ==
    /\ modeler.pending > 0
    /\ LET currentObjects == JsonCopy(modeler.objects)
       IN modeler' =
            [modeler EXCEPT
               !.history =
                  [past |-> Append(SliceLast(@.past, maxHistoryStates - 1),
                                   currentObjects),
                   future |-> <<>>],
               !.pending = @ - 1]
    /\ last' = Call("saveToHistory", TRUE, <<>>, <<>>, <<>>, <<>>, mesh, mesh)
                 @@ SavedEdit
    /\ UNCHANGED <<mesh, calls, twin>>

\* the edit an undo or redo belongs to: the one whose saveToHistory (or
\* whose saveToHistory and undo) ran directly before
Carried(op) ==
    IF last.op = op /\ last.edit \in EditOps
    THEN [before |-> last.before, after |-> last.after, edit |-> last.edit]
    ELSE [before |-> <<>>, after |-> <<>>, edit |-> "none"]

Undo ==
    /\ Len(modeler.history.past) > 0
    /\ LET past == modeler.history.past
           future == modeler.history.future
           previous == past[Len(past)]
           newPast == SubSeq(past, 1, Len(past) - 1)
           currentObjects == JsonCopy(modeler.objects)
       IN modeler' =
            [modeler EXCEPT
               !.objects = previous,
               !.history =
                  [past |-> newPast,
                   future |-> <<currentObjects>> \o SliceFirst(future, 19)]]
    /\ last' = Call("undo", TRUE, <<>>, <<>>, <<>>, <<>>, mesh, mesh)
                 @@ Carried("saveToHistory")
    /\ UNCHANGED <<mesh, calls, twin>>

Redo ==
    /\ Len(modeler.history.future) > 0
    /\ LET past == modeler.history.past
           future == modeler.history.future
           next == future[1]
           newFuture == Tail(future)
           currentObjects == JsonCopy(modeler.objects)
       IN modeler' =
            [modeler EXCEPT
               !.objects = next,
               !.history =
                  [past |-> Append(past, currentObjects),
                   future |-> newFuture]]
    /\ last' = Call("redo", TRUE, <<>>, <<>>, <<>>, <<>>, mesh, mesh)
                 @@ Carried("undo")
    /\ UNCHANGED <<mesh, calls, twin>>

ModelerNext ==
    \/ AddObject
    \/ RemoveObject
    \/ UpdateObject
    \/ SaveToHistory
    \/ Undo
    \/ Redo

SpecModeler == StoreInit /\ [][ModelerNext]_vars

(***************************************************************************)
(* Properties of the Mesh Store.                                           *)
(***************************************************************************)
StrictlyIncreasing(s) == \A i, j \in DOMAIN s : i < j => s[i] < s[j]

\* C2: the ids handed out on one mesh, in the order they were handed out
\* and whatever kind of element they name, are strictly increasing: no id is
\* handed out twice, not even the id of an element deleted since.
IdsNeverReused == StrictlyIncreasing(mesh.issued)

\* an id is handed out after another element has been deleted
IdAfterDeletion ==
    /\ last.op \in {"addVertex", "addEdge", "addFace", "addMaterial"}
    /\ last.ok
    /\ mesh.materials # {}
    /\ \E id \in Range(mesh.issued) :
         /\ id \notin Keys(mesh) \cup mesh.materials
         /\ id < mesh.nextId - 1

\* C3: a successful addFace leaves a face with as many edgeIds as
\* vertexIds, and every edge it names lists the new face exactly once.
AddFaceEdgesListFaceOnce ==
    (last.op = "addFace" /\ last.ok) =>
        LET f == last.newFaceIds[1]
            face == mesh.faces[f]
        IN /\ Len(face.edgeIds) = Len(face.vertexIds)
           /\ \A i \in DOMAIN face.edgeIds :
                /\ face.edgeIds[i] \in DOMAIN mesh.edges
                /\ Count(mesh.edges[face.edgeIds[i]].faceIds, f) = 1

\* addFace has run on a cycle in which a vertex pair repeats
AddFaceRepeatedPair ==
    /\ last.op = "addFace" /\ last.ok
    /\ LET face == mesh.faces[last.newFaceIds[1]]
       IN \E i, j \in DOMAIN face.edgeIds :
             i # j /\ face.edgeIds[i] = face.edgeIds[j]

Touches(m, e, v) == Includes(m.edges[e].vertexIds, v)

\* what removeVertex(v) is to do to the mesh pre, giving post
RemoveVertexPost(pre, post, v) ==
    IF v \notin DOMAIN pre.vertices THEN post = pre
    ELSE /\ DOMAIN post.vertices = DOMAIN pre.vertices \ {v}
         /\ \A u \in DOMAIN post.vertices : post.vertices[u] = pre.vertices[u]
         /\ DOMAIN post.edges = {e \in DOMAIN pre.edges : ~Touches(pre, e, v)}
         /\ DOMAIN post.faces =
              {f \in DOMAIN pre.faces : ~Includes(pre.faces[f].vertexIds, v)}
         /\ \A e \in DOMAIN post.edges :
              /\ post.edges[e].vertexIds = pre.edges[e].vertexIds
              /\ Range(post.edges[e].faceIds) \subseteq DOMAIN post.faces
         /\ \A f \in DOMAIN post.faces :
              /\ post.faces[f] = pre.faces[f]
              /\ Range(post.faces[f].edgeIds) \subseteq DOMAIN post.edges
         /\ post.nextId = pre.nextId

\* C9: removeVertex(v) on a mesh built by the store's mutators removes v,
\* the edges ending at v and the faces containing v, and nothing else; no
\* remaining edge or face names v or a removed edge; on an absent id it
\* changes nothing.
RemoveVertexCascades ==
    [][last'.op = "removeVertex" =>
         RemoveVertexPost(mesh, mesh', last'.args[1])]_vars

\* removeVertex has removed a vertex together with an edge and a face
RemoveVertexCascaded ==
    /\ last.op = "removeVertex"
    /\ \E v \in last.gone : v = last.args[1]
    /\ Cardinality(last.gone) >= 5
    /\ DOMAIN mesh.edges # {}

\* what removeFace(f) is to do to the mesh pre, giving post
RemoveFacePost(pre, post, f) ==
    IF f \notin DOMAIN pre.faces THEN post = pre
    ELSE /\ DOMAIN post.faces = DOMAIN pre.faces \ {f}
         /\ \A g \in DOMAIN post.faces : post.faces[g] = pre.faces[g]
         /\ post.vertices = pre.vertices
         /\ DOMAIN post.edges = DOMAIN pre.edges
         /\ \A e \in DOMAIN post.edges :
              /\ post.edges[e].vertexIds = pre.edges[e].vertexIds
              /\ Includes(pre.faces[f].edgeIds, e) =>
                   post.edges[e].faceIds = Without(pre.edges[e].faceIds, f)
         /\ post.nextId = pre.nextId

\* C10: removeFace(f) on an existing face removes f from the face table
\* and from the faceIds of every edge f referenced; the vertex table, the
\* set of edge ids, every edge's vertexIds, every other face and the id
\* counter stay as they were; on an absent id nothing changes.
RemoveFaceOnlyDetaches ==
    [][last'.op = "removeFace" =>
         RemoveFacePost(mesh, mesh', last'.args[1])]_vars

\* removeFace has removed a face while its edges stay in the table
RemoveFaceKeptEdges ==
    /\ last.op = "removeFace"
    /\ last.gone # {}
    /\ last.gone \cap DOMAIN mesh.faces = {}
    /\ Cardinality(DOMAIN mesh.edges) >= 3

(***************************************************************************)
(* Properties of the Topology Operations.                                  *)
(***************************************************************************)
RefsExist(m) ==
    /\ \A e \in DOMAIN m.edges :
         Range(m.edges[e].vertexIds) \subseteq DOMAIN m.vertices
    /\ \A f \in DOMAIN m.faces :
         /\ Range(m.faces[f].vertexIds) \subseteq DOMAIN m.vertices
         /\ Range(m.faces[f].edgeIds) \subseteq DOMAIN m.edges

\* C1: in every state reached from the empty mesh by the store's mutators
\* and the topology operations on existing targets, every vertex id in an
\* edge's or a face's vertexIds is in the vertex table and every edge id in
\* a face's edgeIds is in the edge table.
ReferencesExist == RefsExist(mesh)

\* C4: after mergeVertices on two or more existing vertices of a mesh the
\* store's mutators built, no edge's and no face's vertexIds contains a
\* removed vertex id.
MergeLeavesNoReference ==
    (last.op = "mergeVertices" /\ last.ok) =>
        \A r \in Range(Tail(last.args)) :
            /\ \A e \in DOMAIN mesh.edges : ~Includes(mesh.edges[e].vertexIds, r)
            /\ \A f \in DOMAIN mesh.faces : ~Includes(mesh.faces[f].vertexIds, r)

\* no two edges of m have the same unordered pair of vertex ids
NoDuplicateEdges(m) ==
    \A e1, e2 \in DOMAIN m.edges :
        e1 # e2 => Range(m.edges[e1].vertexIds) # Range(m.edges[e2].vertexIds)

\* C5: after mergeVertices on a mesh in which no two edges shared an
\* unordered vertex pair, no two remaining edges share an unordered vertex
\* pair.
MergeLeavesNoDuplicateEdge ==
    [][(last'.op = "mergeVertices" /\ last'.ok /\ NoDuplicateEdges(mesh))
         => NoDuplicateEdges(mesh')]_vars

ReturningOps ==
    {"extrudeFace", "bevelEdge", "chamferEdge", "chamferVertex", "subdivideEdge"}

\* C8: the ids a successful extrudeFace, bevelEdge, chamferEdge,
\* chamferVertex or subdivideEdge returns are exactly the ids of the
\* elements the call created, kind by kind.
ReturnedIdsAreCreated ==
    [][(last'.op \in ReturningOps /\ last'.ok) =>
         /\ DOMAIN mesh'.vertices \ DOMAIN mesh.vertices
              = Range(last'.newVertexIds)
         /\ DOMAIN mesh'.edges \ DOMAIN mesh.edges = Range(last'.newEdgeIds)
         /\ DOMAIN mesh'.faces \ DOMAIN mesh.faces = Range(last'.newFaceIds)]_vars

Tables(m) == <<m.vertices, m.edges, m.faces>>

\* C7: clone() gives a mesh with equal vertex, edge and face tables and the
\* same id counter, and from then on a call on one of the two meshes leaves
\* the tables of the other as they were.
CloneIsIndependent ==
    [][/\ last'.op = "clone" =>
            Tables(twin'.mesh) = Tables(mesh) /\ twin'.mesh.nextId = mesh.nextId
       /\ (twin # NoTwin /\ twin' # NoTwin) =>
            (Tables(mesh') = Tables(mesh)
               \/ Tables(twin'.mesh) = Tables(twin.mesh))]_vars

RoundTrips == {"fromJSON(toJSON)", "fromJSON(stringify)"}

\* C6: a serialization round trip of a mesh, by its toJSON or by
\* JSON.stringify, which calls toJSON where there is one, gives a mesh with
\* the same vertex ids and positions, the same face ids and face vertex-id
\* lists, and the same id counter.
RoundTripReconstructs ==
    last.op \in RoundTrips =>
        /\ last.ok
        /\ twin # NoTwin
        /\ DOMAIN twin.mesh.vertices = DOMAIN mesh.vertices
        /\ \A v \in DOMAIN mesh.vertices :
             twin.mesh.vertices[v].position = mesh.vertices[v].position
        /\ DOMAIN twin.mesh.faces = DOMAIN mesh.faces
        /\ \A f \in DOMAIN mesh.faces :
             twin.mesh.faces[f].vertexIds = mesh.faces[f].vertexIds
        /\ twin.mesh.nextId = mesh.nextId

\* C11: an addEdge or addFace that throws leaves the mesh as it was: the
\* vertex, edge and face tables, every edge's faceIds and the id counter are
\* those before the call, so the next creating call returns the id it would
\* have returned without the throwing call.
FailedCreationChangesNothing ==
    [][(last'.op \in {"addEdge", "addFace"} /\ ~last'.ok) => mesh' = mesh]_vars

\* addFace has thrown on a mesh that holds vertices and an edge
AddFaceThrown ==
    /\ last.op = "addFace" /\ ~last.ok
    /\ DOMAIN mesh.edges # {}
    /\ Cardinality(DOMAIN mesh.vertices) >= 2

\* C12: smoothMesh called with iterations <= 0 or alpha <= 0 returns
\* normally and leaves every vertex position, and everything else in the
\* mesh, as it was, whatever the other options.
SmoothNoOp ==
    [][(last'.op = "smoothMesh"
          /\ LET options == last'.args[1]
             IN \/ Option(options, "iterations", 1) <= 0
                \/ Option(options, "alpha", R(1))[1] <= 0)
         => last'.ok /\ mesh' = mesh]_vars

\* smoothMesh has run with alpha = 0, one iteration and no preservation on
\* a mesh in which an edge joins a vertex to itself, where a round would
\* weight the vertex by 1/0
SmoothedWithAlphaZero ==
    /\ last.op = "smoothMesh"
    /\ last.args[1] = [alpha |-> R(0), iterations |-> 1,
                       preserveBoundaries |-> FALSE,
                       preserveFeatures |-> FALSE]
    /\ \E e \in DOMAIN mesh.edges :
          mesh.edges[e].vertexIds[1] = mesh.edges[e].vertexIds[2]

\* the mesh of the line scenario: three vertices at x = 0, 1 and 3 on the
\* x axis, one edge from the middle vertex to each of the others, no face
LineMesh(m) ==
    /\ DOMAIN m.faces = {}
    /\ Cardinality(DOMAIN m.vertices) = 3
    /\ Cardinality(DOMAIN m.edges) = 2
    /\ \E a, b, c \in DOMAIN m.vertices :
         /\ m.vertices[a].position = Vec(0, 0, 0)
         /\ m.vertices[b].position = Vec(1, 0, 0)
         /\ m.vertices[c].position = Vec(3, 0, 0)
         /\ {EdgeKey(m.edges[e].vertexIds[1], m.edges[e].vertexIds[2]) :
               e \in DOMAIN m.edges} = {EdgeKey(a, b), EdgeKey(b, c)}

MiddleOfLine(m) ==
    CHOOSE b \in DOMAIN m.vertices : m.vertices[b].position = Vec(1, 0, 0)

\* smoothMesh(mesh, {iterations: 1, alpha: 1, preserveBoundaries: false})
LineCall == [iterations |-> 1, alpha |-> R(1), preserveBoundaries |-> FALSE]

\* C13 as stated: on the line 0 - 1 - 3, smoothMesh with iterations = 1,
\* alpha = 1, preserveBoundaries = false and every other option left at its
\* default moves the middle vertex to x = 3/2.
SmoothLineMovesMiddle ==
    [][(LineMesh(mesh) /\ last'.op = "smoothMesh" /\ last'.args[1] = LineCall)
         => mesh'.vertices[MiddleOfLine(mesh)].position[1] = Rat(3, 2)]_vars

\* C13 amended: on the line 0 - 1 - 3, smoothMesh with iterations = 1,
\* alpha = 1, preserveBoundaries = false and useWeights = false moves the
\* middle vertex to x = 3/2; with useWeights left at its default, true, the
\* neighbors are weighted by 1/distance and the middle vertex stays at x = 1.
SmoothLineUnweighted ==
    [][(LineMesh(mesh) /\ last'.op = "smoothMesh") =>
         /\ last'.args[1] = LineCall @@ [useWeights |-> FALSE] =>
              mesh'.vertices[MiddleOfLine(mesh)].position
                = <<Rat(3, 2), R(0), R(0)>>
         /\ last'.args[1] = LineCall =>
              mesh'.vertices[MiddleOfLine(mesh)].position = Vec(1, 0, 0)]_vars

\* the line has been smoothed without weights
LineSmoothedUnweighted ==
    /\ last.op = "smoothMesh"
    /\ last.args[1] = LineCall @@ [useWeights |-> FALSE]
    /\ Cardinality(DOMAIN mesh.vertices) = 3
    /\ Cardinality(DOMAIN mesh.edges) = 2
    /\ \E b \in DOMAIN mesh.vertices :
         /\ mesh.vertices[b].position = <<Rat(3, 2), R(0), R(0)>>
         /\ \A v \in DOMAIN mesh.vertices \ {b} :
              mesh.vertices[v].position = Vec(1, 0, 0)

UnitSquare(m) ==
    /\ Cardinality(DOMAIN m.vertices) = 4
    /\ Cardinality(DOMAIN m.faces) = 1
    /\ Cardinality(DOMAIN m.edges) = 4
    /\ \A f \in DOMAIN m.faces :
         /\ AllVerticesExist(m, m.faces[f].vertexIds)
         /\ FacePositions(m, m.faces[f].vertexIds) = SquareCorners

\* C15: validateTopology returns the empty list for the empty mesh, for the
\* mesh holding only the planar unit square as one quad face, and for the
\* cube of 8 vertices and 6 quad faces that createSampleCube builds by
\* addVertex and addFace.
ValidShapesHaveNoIssues ==
    (/\ last.op = "validateTopology"
     /\ \/ Tables(mesh) = Tables(EmptyMesh)
        \/ UnitSquare(mesh)
        \/ mesh = SampleCube)
      => last.ok /\ last.issues = <<>>

\* the sample cube has been validated
CubeValidated ==
    /\ last.op = "validateTopology"
    /\ mesh = SampleCube
    /\ Cardinality(DOMAIN mesh.vertices) = 8
    /\ Cardinality(DOMAIN mesh.faces) = 6
    /\ Cardinality(DOMAIN mesh.edges) = 12

\* the number of orphaned-vertex issues that name v
OrphanIssues(issues, v) ==
    Cardinality({i \in DOMAIN issues :
                   /\ issues[i].type = "orphaned-vertex"
                   /\ issues[i].elementId = v})

UVsMatchVertices ==
    /\ [](\A f \in DOMAIN mesh.faces :
            Len(mesh.faces[f].uvs) = Len(mesh.faces[f].vertexIds))
    /\ [][(last'.op = "updateFaceUVs" /\ last'.args[1] \in DOMAIN mesh.faces) =>
            LET f == last'.args[1]
                uvs == last'.args[2]
            IN IF Len(uvs) # Len(mesh.faces[f].vertexIds)
               THEN ~last'.ok /\ mesh' = mesh
               ELSE /\ last'.ok
                    /\ mesh' = [mesh EXCEPT !.faces[f].uvs = uvs]]_vars

\* updateFaceUVs has thrown on a face whose uvs an earlier call replaced
UVsRefusedAfterUpdate ==
    /\ last.op = "updateFaceUVs" /\ ~last.ok
    /\ last.args[1] \in DOMAIN mesh.faces
    /\ mesh.faces[last.args[1]].uvs \in UvLists

\* C19: after any sequence of the store's mutators every face has as many
\* edgeIds as vertexIds, and for every index i the edge edgeIds[i] exists
\* and joins vertexIds[i] and vertexIds[(i+1) mod n], in either direction.
FaceEdgesJoinConsecutive ==
    \A f \in DOMAIN mesh.faces :
       LET vids == mesh.faces[f].vertexIds
           eids == mesh.faces[f].edgeIds
       IN /\ Len(eids) = Len(vids)
          /\ \A i \in DOMAIN vids :
               /\ eids[i] \in DOMAIN mesh.edges
               /\ \/ mesh.edges[eids[i]].vertexIds
                       = <<vids[i], vids[(i % Len(vids)) + 1]>>
                  \/ mesh.edges[eids[i]].vertexIds
                       = <<vids[(i % Len(vids)) + 1], vids[i]>>

\* removeVertex has removed a vertex and its edges from a mesh that
\* still holds a face
FaceSurvivesRemoveVertex ==
    /\ last.op = "removeVertex"
    /\ \E e \in last.gone : e \in Range(mesh.issued) /\ last.gone # {e}
    /\ DOMAIN mesh.faces # {}

\* C20: addFace creates no edge whose unordered vertex pair is that of an
\* edge already in the table or of another edge it creates; so after any
\* sequence of addVertex, addFace, removeFace and removeVertex, with no
\* direct addEdge call, no two edges of the table share an unordered vertex
\* pair.
AddFaceReusesEdges ==
    /\ []NoDuplicateEdges(mesh)
    /\ [][(last'.op = "addFace" /\ last'.ok) =>
            \A e \in DOMAIN mesh'.edges \ DOMAIN mesh.edges :
               \A d \in DOMAIN mesh'.edges \ {e} :
                  Range(mesh'.edges[d].vertexIds) # Range(mesh'.edges[e].vertexIds)]_vars

\* a face has been added on the edges left by a removed face of the
\* opposite winding
OppositeWindingAdded ==
    /\ last.op = "addFace" /\ last.ok
    /\ LET g == last.newFaceIds[1]
           vids == mesh.faces[g].vertexIds
           eids == mesh.faces[g].edgeIds
       IN /\ Cardinality(Range(vids)) = 3
          /\ \A i \in DOMAIN vids :
               /\ eids[i] < g
               /\ mesh.edges[eids[i]].vertexIds
                    = <<vids[(i % Len(vids)) + 1], vids[i]>>
               /\ mesh.edges[eids[i]].faceIds = <<g>>

(***************************************************************************)
(* Properties of subdivideEdge and subdivideFace.                          *)
(***************************************************************************)
\* in mesh m the face record has one edge id per vertex id, and its i-th
\* edge exists and joins its i-th vertex and the next one, in either
\* direction
FaceJoins(m, face) ==
    LET vids == face.vertexIds
        eids == face.edgeIds
    IN /\ Len(eids) = Len(vids)
       /\ \A i \in DOMAIN vids :
            /\ eids[i] \in DOMAIN m.edges
            /\ Range(m.edges[eids[i]].vertexIds)
                 = {vids[i], vids[(i % Len(vids)) + 1]}

\* C21: after subdivideEdge on an edge (a,b) with k >= 2 segments, in
\* every face adjacent to the edge the k new edge ids stand in the slot of
\* the removed edge id, the k-1 new vertex ids are in vertexIds, and
\* edgeIds[i] still joins vertexIds[i] and vertexIds[(i+1) mod n] for
\* every i, which places the new vertices between a and b in chain order;
\* whichever way the face runs along the edge, the closing edge included.
SubdivideEdgeKeepsFaceOrder ==
    [][(last'.op = "subdivideEdge" /\ last'.ok) =>
         LET edge == mesh.edges[last'.args[1]]
         IN \A n \in DOMAIN edge.faceIds :
               LET old == mesh.faces[edge.faceIds[n]]
                   new == mesh'.faces[edge.faceIds[n]]
               IN FaceJoins(mesh, old) =>
                    /\ new.edgeIds
                         = SpliceReplace(old.edgeIds,
                                         IndexOf(old.edgeIds, last'.args[1]),
                                         last'.newEdgeIds)
                    /\ Range(last'.newVertexIds) \subseteq Range(new.vertexIds)
                    /\ Len(new.vertexIds)
                         = Len(old.vertexIds) + Len(last'.newVertexIds)
                    /\ FaceJoins(mesh', new)]_vars

\* C22: subdivideFace with k segments subdivides each edge the face had
\* when the call started once and no other edge: afterwards none of the
\* face's original edge ids is in the edge table or in the face's edgeIds,
\* every edge id in the face's edgeIds exists, and the call returns
\* n*(k-1) new vertex ids and n*k new edge ids for a face of n edges.
SubdivideFaceSubdividesItsEdges ==
    [][(last'.op = "subdivideFace" /\ last'.ok) =>
         LET old == mesh.faces[last'.args[1]]
             new == mesh'.faces[last'.args[1]]
             n == Len(old.edgeIds)
         IN /\ Range(old.edgeIds) \cap DOMAIN mesh'.edges = {}
            /\ Range(old.edgeIds) \cap Range(new.edgeIds) = {}
            /\ Range(new.edgeIds) \subseteq DOMAIN mesh'.edges
            /\ \E k \in Segments :
                  /\ Len(last'.newVertexIds) = n * (k - 1)
                  /\ Len(last'.newEdgeIds) = n * k]_vars

(***************************************************************************)
(* Properties of mergeVertices.                                            *)
(***************************************************************************)
\* C23: mergeVertices given fewer than 2 ids fails and leaves the mesh as
\* it was; given 2 or more existing ids it returns mergedVertexId =
\* vertexIds[0] and removedVertexIds = the other given ids in order, and
\* afterwards vertexIds[0] is in the vertex table and none of the removed
\* ids is, also when the list names a vertex more than once.
MergeKeepsFirstRemovesRest ==
    [][last'.op = "mergeVertices" =>
         IF Len(last'.args) < 2
         THEN ~last'.ok /\ mesh' = mesh
         ELSE /\ last'.ok
              /\ last'.mergedVertexId = last'.args[1]
              /\ last'.removedVertexIds = Tail(last'.args)
              /\ last'.args[1] \in DOMAIN mesh'.vertices
              /\ Range(Tail(last'.args)) \cap DOMAIN mesh'.vertices = {}]_vars

\* C24: in every state reached through the store's mutators and
\* mergeVertices the two vertex ids of each edge are different: addEdge
\* with one vertex twice, addFace with a vertex repeated consecutively and
\* a merge of the two endpoints of an edge leave no self-loop edge.
NoSelfLoopEdges ==
    \A e \in DOMAIN mesh.edges :
        mesh.edges[e].vertexIds[1] # mesh.edges[e].vertexIds[2]

(***************************************************************************)
(* Further properties of validateTopology.                                 *)
(***************************************************************************)
\* the faces of m that have an edge id in common with face f
SharingFaces(m, f) ==
    {g \in DOMAIN m.faces :
       Range(m.faces[g].edgeIds) \cap Range(m.faces[f].edgeIds) # {}}

\* the faces joined to those of fs by a chain of faces with a common edge
RECURSIVE JoinedFaces(_, _)
JoinedFaces(m, fs) ==
    LET more == fs \cup UNION {SharingFaces(m, f) : f \in fs}
    IN IF more = fs THEN fs ELSE JoinedFaces(m, more)

\* the connected components of the faces of m
FaceComponents(m) == {JoinedFaces(m, {f}) : f \in DOMAIN m.faces}

\* the isolated-component issues of a list of issues
IslandIssues(issues) ==
    SelectSeq(issues, LAMBDA i : i.type = "isolated-component")

DanglingFace(m, f) ==
    \/ ~(Range(m.faces[f].vertexIds) \subseteq DOMAIN m.vertices)
    \/ ~(Range(m.faces[f].edgeIds) \subseteq DOMAIN m.edges)

\* an edge of m names a vertex or a face that is not in its table
DanglingEdge(m, e) ==
    \/ ~(Range(m.edges[e].vertexIds) \subseteq DOMAIN m.vertices)
    \/ ~(Range(m.edges[e].faceIds) \subseteq DOMAIN m.faces)

\* the list of issues has one on the element
HasIssueOn(issues, elementType, id) ==
    \E i \in DOMAIN issues :
       /\ issues[i].elementType = elementType
       /\ issues[i].elementType # "mesh"
       /\ issues[i].elementId = id

\* C26: validateTopology on a mesh reached through the public operations
\* returns at least one issue on every face whose vertexIds or edgeIds
\* name an element that no longer exists, and on every edge with a missing
\* endpoint or with a faceIds entry for a missing face.
DanglingIsReported ==
    last.op = "validateTopology" =>
       /\ \A f \in DOMAIN mesh.faces :
             DanglingFace(mesh, f) => HasIssueOn(last.issues, "face", f)
       /\ \A e \in DOMAIN mesh.edges :
             DanglingEdge(mesh, e) => HasIssueOn(last.issues, "edge", e)

(***************************************************************************)
(* Further properties of smoothMesh.                                       *)
(***************************************************************************)
\* v is an end of an edge of m that lists exactly one face
TouchesOneFaceEdge(m, v) ==
    \E e \in DOMAIN m.edges :
       Includes(m.edges[e].vertexIds, v) /\ Len(m.edges[e].faceIds) = 1

\* v is in no face of m
InNoFace(m, v) == \A f \in DOMAIN m.faces : ~Includes(m.faces[f].vertexIds, v)

\* C27: with preserveBoundaries = true, smoothMesh leaves in place every
\* vertex that touches an edge with exactly one adjacent face or that is
\* in no face, for any number of iterations.
SmoothKeepsBoundary ==
    [][(last'.op = "smoothMesh" /\ last'.ok
          /\ Option(last'.args[1], "preserveBoundaries", TRUE)) =>
         \A v \in DOMAIN mesh.vertices :
            (TouchesOneFaceEdge(mesh, v) \/ InNoFace(mesh, v)) =>
               mesh'.vertices[v].position = mesh.vertices[v].position]_vars

\* the edges of m that end at v
EdgesAt(m, v) == {e \in DOMAIN m.edges : Includes(m.edges[e].vertexIds, v)}

\* the position of v after one unweighted round without preservation:
\* old + factor * (average - old), with the average of the positions that
\* the other ends of the edges at v have in m
JacobiPosition(m, v, factor) ==
    LET es == SortedSeq(EdgesAt(m, v))
        sum == VSum([i \in DOMAIN es |-> Position(m, OtherEnd(m, es[i], v))])
        old == Position(m, v)
    IN IF es = <<>> THEN old
       ELSE VAdd(old, VScale(VSub(VDivide(sum, R(Len(es))), old), factor))

\* every vertex of m is given its position after the round
JacobiRound(m, factor) ==
    [m EXCEPT !.vertices =
        [v \in DOMAIN @ |-> [@[v] EXCEPT !.position = JacobiPosition(m, v, factor)]]]

\* the options ask for unweighted smoothing without preservation
PlainSmoothing(options) ==
    /\ ~Option(options, "useWeights", TRUE)
    /\ ~Option(options, "preserveBoundaries", TRUE)
    /\ ~Option(options, "preserveFeatures", TRUE)
    /\ Option(options, "iterations", 1) > 0
    /\ RLess(R(0), Option(options, "alpha", R(1)))

EdgeAndFaceLinksAgree ==
    \A e \in DOMAIN mesh.edges :
       /\ \A f \in Range(mesh.edges[e].faceIds) :
             /\ f \in DOMAIN mesh.faces
             /\ Includes(mesh.faces[f].edgeIds, e)
             /\ Count(mesh.edges[e].faceIds, f) = 1
       /\ \A f \in DOMAIN mesh.faces :
             Includes(mesh.faces[f].edgeIds, e) =>
                Includes(mesh.edges[e].faceIds, f)

\* a removal has left one of two faces, an edge that lists it and an edge
\* that lists no face
OneOfTwoFacesLeft ==
    /\ last.op \in {"removeFace", "removeVertex"}
    /\ calls.face = 2
    /\ Cardinality(DOMAIN mesh.faces) = 1
    /\ \E e \in DOMAIN mesh.edges : mesh.edges[e].faceIds = <<>>
    /\ \E e \in DOMAIN mesh.edges : Len(mesh.edges[e].faceIds) = 1

(***************************************************************************)
(* C30: with autoSave on, once an edit (addObject, removeObject or         *)
(* updateObject) and the saveToHistory call it deferred have both run, an  *)
(* undo sets objects to the value they had before the edit, and a redo     *)
(* that follows the undo sets them to the value they had after it.         *)
(***************************************************************************)
\* the same objects, as JSON tells them apart
SameObjects(a, b) == JsonCopy(a) = JsonCopy(b)

UndoRestoresBeforeRedoAfter ==
    [][/\ (last.op = "saveToHistory" /\ last.edit \in EditOps
             /\ last'.op = "undo")
            => SameObjects(modeler'.objects, last.before)
       /\ (last.op = "undo" /\ last.edit \in EditOps /\ last'.op = "redo")
            => SameObjects(modeler'.objects, last.after)]_vars

====
